---------------------------- MODULE Spec2Model ----------------------------
(***************************************************************************)
(* A model of odbms: the connection pool (odbms/connection_pool.py), the   *)
(* Model layer's normaliser and persistence operations (odbms/model.py)    *)
(* and the SQLite adapter they drive (odbms/orms/sqlitedb.py).             *)
(***************************************************************************)
EXTENDS Integers, Sequences, FiniteSets, TLC

(***************************************************************************)
(* Bounds of the exploration.                                              *)
(***************************************************************************)
\* pool sizes passed to initialize_pool: 1..MaxPoolSize
MaxPoolSize == 2
\* connection objects alive at once (in a queue or held by a caller)
MaxConns == 3
\* Queue objects alive at once (in self.pools or being waited on)
MaxQueues == 3
\* ages of the stored records and of the conditions: 1..MaxAge
MaxAge == 2
\* rows inserted into the table in one behaviour
MaxRows == 2
\* saves of one instance in one behaviour
MaxStamps == 2
\* rows inserted into the users table in one behaviour
MaxUsers == 2
\* stored entities a relationship can refer to
MaxPosts == 2
\* length of the list assigned to a relationship
MaxList == 2

(***************************************************************************)
(* Program constants.                                                      *)
(***************************************************************************)
\* initialize_pool(self, dbms, config, pool_size: int = 5)
DefaultPoolSize == 5

Threads == {"t1", "t2"}
None == 0
DbmsKinds == {"sqlite", "postgresql", "mysql"}
\* the one configuration the callers of the model use
Cfg == [host |-> "h", port |-> 1, database |-> "d"]

VARIABLES
    pools,        \* self.pools: pool key -> Queue object, None when the key is absent
    pool_sizes,   \* self.pool_sizes: pool key -> configured size (0 when absent)
    queues,       \* the heap of Queue objects: id -> [items, maxsize]
    conns,        \* the heap of connections: id -> "none" | "open" | "closed"
    th,           \* per thread: where it is in initialize_pool / get_connection
    closed_once,  \* history: close_all has been called
    dbms_in_use,  \* the backend kind the callers of this run pass to the pool
    Database,     \* DBMS.Database: "None", or the kind of the adapter installed
    hooks,        \* the hook lists of the model class that are not empty
    table,        \* the rows of the model's table, in rowid order
    next_id,      \* the rowid the table's AUTOINCREMENT gives to the next insert
    inst,         \* the model instance the caller holds, self._dynamic_fields in dyn
    last,         \* what the last Model operation did, in order, and how it ended
    steps,        \* the statements of save that the last save reached, in order
    orig,         \* normaliser: the content handed to normalise(content, 'params')
    native,       \* normaliser: what that call returned or raised
    back,         \* normaliser: what normalise(native, 'dbresult') returned or raised
    adapter,      \* adapters: the adapter class the caller uses
    users,        \* adapters: the rows of the users table, in rowid order
    serial,       \* adapters: the rowid AUTOINCREMENT gives to the next insert
    lastrowid,    \* adapters: cursor.lastrowid of the cursor SqliteDB keeps
    last_call,    \* adapters: the last call, its statement and its outcome
    relation,     \* relationships: the class of the field posts of the owner's class
    owner,        \* relationships: self._dynamic_fields of the owner the caller holds
    assigned,     \* relationships, history: the list last assigned to owner.posts
    cached_value, \* relationships: field._cached_value of the field posts
    owner_row,    \* relationships: the stored record of the owner, None before a save
    reloaded,     \* relationships: self._dynamic_fields of the owner got by id
    read,         \* relationships: what the last read of .posts returned
    handles,      \* DBMS: the db attribute of each legacy adapter class, kind -> database
    last_init,    \* DBMS: the last call of DBMS.initialize and how it ended
    field,        \* fields: the field object, its class and its declared validators
    given,        \* fields: the value handed to field.validate
    validated,    \* fields: what validate returned or raised, and the validators it called
    graph,        \* cascade: class -> id -> the id the entity's relationship points to
    cascades,     \* cascade: class -> field.cascade of the relationship field it declares
    present,      \* cascade: class -> the ids that have a stored record
    cache,        \* cascade: class -> field._cached_value of the field it declares
    frames,       \* cascade: the calls of delete in progress, innermost last
    events,       \* cascade: what the running delete did so far, in order
    deleting,     \* cascade: the delete the caller made and how it ended
    rel_read,     \* cascade: the last read of a relationship and what it returned
    hook_lists,   \* hooks: the eight hook lists of class Model, list name -> hooks
    hook_run,     \* hooks: the last operation on an instance and the hooks it ran
    event_loop,   \* loop: self._loop of the MongoDB adapter, None or a loop
    loops_made,   \* loop: the event loops made so far
    mongo_client, \* loop: self.client of the MongoDB adapter, None or connected
    documents,    \* loop: the number of documents in the collection
    last_run      \* loop: the last blocking call and how it ended

poolVars == <<pools, pool_sizes, queues, conns, th, closed_once, dbms_in_use>>
modelVars == <<Database, hooks, table, next_id, inst, last, steps>>
normVars == <<orig, native, back>>
adapterVars == <<adapter, users, serial, lastrowid, last_call>>
\* the layers added to the first three, and what the adapters leave alone
relVars == <<relation, owner, assigned, cached_value, owner_row, reloaded, read>>
dbmsVars == <<handles, last_init>>
fieldVars == <<field, given, validated>>
cascadeVars == <<graph, cascades, present, cache, frames, events, deleting, rel_read>>
hookVars == <<hook_lists, hook_run>>
loopVars == <<event_loop, loops_made, mongo_client, documents, last_run>>
moreVars == <<cascadeVars, hookVars, loopVars>>
extVars == <<adapterVars, relVars, dbmsVars, fieldVars, moreVars>>
restOfAdapter == <<poolVars, modelVars, normVars, relVars, dbmsVars, fieldVars, moreVars>>
restOfRel == <<poolVars, modelVars, normVars, adapterVars, dbmsVars, fieldVars, moreVars>>
restOfMore == <<poolVars, modelVars, normVars, adapterVars, relVars, dbmsVars, fieldVars>>
restOfCascade == <<restOfMore, hookVars, loopVars>>
restOfHooks == <<restOfMore, cascadeVars, loopVars>>
restOfLoop == <<restOfMore, cascadeVars, hookVars>>
vars == <<poolVars, modelVars, normVars, extVars>>

\* _get_pool_key
PoolKey(dbms, config) ==
    IF dbms = "sqlite"
    THEN <<dbms, config.database>>
    ELSE <<dbms, config.host, config.port, config.database>>

PoolKeys == {PoolKey(d, Cfg) : d \in DbmsKinds}

\* _create_connection: the outcomes a call can have.  TRUE: the driver returned
\* a connection; FALSE: the driver raised (caught, None returned) or, for
\* 'mysql', no branch matches and the function falls through to None.
CreateOutcomes(dbms) ==
    IF dbms = "mysql" THEN {FALSE} ELSE BOOLEAN

\* the liveness probe of get_connection's finally block: TRUE when no exception
\* is raised.  psycopg2 connections have no ping attribute, so the 'postgresql'
\* branch always raises AttributeError; a sqlite connection raises exactly when
\* it has been closed; any other kind is not probed.
ProbePasses(dbms, c) ==
    IF dbms \in {"postgresql", "mysql"} THEN FALSE
    ELSE IF dbms = "sqlite" THEN conns[c] = "open"
    ELSE TRUE

(***************************************************************************)
(* The heap.  Queue and connection objects are named by small numbers; an  *)
(* object nothing refers to any more is garbage and its number is reused.  *)
(***************************************************************************)
EmptyQueue == [items |-> << >>, maxsize |-> 0]

SeqRange(s) == {s[n] : n \in 1..Len(s)}

Min(S) == CHOOSE x \in S : \A y \in S : x <= y

\* the Queue objects reachable from self.pools or from a thread blocked in get()
LiveQueues(ps, ts) == ({ps[k] : k \in PoolKeys} \cup {ts[t].q : t \in Threads}) \ {None}

\* the connections reachable from a live queue or held by a caller
LiveConns(ps, qs, ts) ==
    (UNION {SeqRange(qs[q].items) : q \in LiveQueues(ps, ts)}
       \cup {ts[t].conn : t \in Threads}) \ {None}

CollectQueues(ps, qs, ts) ==
    [q \in 1..MaxQueues |-> IF q \in LiveQueues(ps, ts) THEN qs[q] ELSE EmptyQueue]

CollectConns(ps, qs, cs, ts) ==
    [c \in 1..MaxConns |-> IF c \in LiveConns(ps, qs, ts) THEN cs[c] ELSE "none"]

FreeQueues == (1..MaxQueues) \ LiveQueues(pools, th)
FreeConns == (1..MaxConns) \ LiveConns(pools, queues, th)

IdleThread == [pc |-> "idle", dbms |-> "sqlite", i |-> 0, ret |-> "idle",
               q |-> None, conn |-> None, err |-> "none"]

ThKey(t) == PoolKey(th[t].dbms, Cfg)

\* what one step leaves behind, with the garbage it makes collected
Commit(ps, qs, cs, ts) ==
    /\ pools' = ps
    /\ th' = ts
    /\ queues' = CollectQueues(ps, qs, ts)
    /\ conns' = CollectConns(ps, qs, cs, ts)

PoolInit ==
    /\ pools = [k \in PoolKeys |-> None]
    /\ pool_sizes = [k \in PoolKeys |-> 0]
    /\ queues = [q \in 1..MaxQueues |-> EmptyQueue]
    /\ conns = [c \in 1..MaxConns |-> "none"]
    /\ th = [t \in Threads |-> IdleThread]
    /\ closed_once = FALSE
    /\ dbms_in_use \in DbmsKinds

(***************************************************************************)
(* initialize_pool                                                         *)
(***************************************************************************)
\* lines 40-43: a call for a key that is already in self.pools returns at once
\* and changes nothing; otherwise the caller goes on to line 45
CallInitializePool(t) ==
    /\ th[t].pc = "idle"
    /\ \E d \in {dbms_in_use}, n \in 1..MaxPoolSize :
          /\ pools[PoolKey(d, Cfg)] = None
          /\ th' = [th EXCEPT ![t] = [IdleThread EXCEPT !.pc = "init_alloc",
                                        !.dbms = d, !.i = n, !.ret = "idle"]]
    /\ UNCHANGED <<pools, pool_sizes, queues, conns, closed_once, dbms_in_use, modelVars, normVars, extVars>>

\* lines 45-47: record the size and install a fresh Queue(maxsize=pool_size)
InitAlloc(t) ==
    /\ th[t].pc = "init_alloc"
    /\ FreeQueues # {}
    /\ LET q == Min(FreeQueues) IN
       Commit([pools EXCEPT ![ThKey(t)] = q],
              [queues EXCEPT ![q] = [items |-> << >>, maxsize |-> th[t].i]],
              conns,
              [th EXCEPT ![t].pc = "init_fill"])
    /\ pool_sizes' = [pool_sizes EXCEPT ![ThKey(t)] = th[t].i]
    /\ UNCHANGED <<closed_once, dbms_in_use, modelVars, normVars, extVars>>

\* initialize_pool returns: to the idle caller, or into get_connection at
\* line 107, where self.pools[pool_key] is read and get(timeout=5) begins
InitReturn(t) ==
    IF th[t].ret = "idle" THEN IdleThread
    ELSE [th[t] EXCEPT !.pc = "gc_wait", !.q = pools[ThKey(t)]]

\* lines 50-53: one iteration of the loop; put() blocks while the queue is full
InitFill(t) ==
    /\ th[t].pc = "init_fill"
    /\ IF th[t].i = 0
       THEN /\ th' = [th EXCEPT ![t] = InitReturn(t)]
            /\ UNCHANGED <<pools, queues, conns>>
       ELSE \E ok \in CreateOutcomes(th[t].dbms) :
              LET q == pools[ThKey(t)] IN
              IF ok
              THEN /\ FreeConns # {}
                   /\ Len(queues[q].items) < queues[q].maxsize
                   /\ LET c == Min(FreeConns) IN
                      Commit(pools,
                             [queues EXCEPT ![q].items = Append(@, c)],
                             [conns EXCEPT ![c] = "open"],
                             [th EXCEPT ![t].i = @ - 1])
              ELSE /\ th' = [th EXCEPT ![t].i = @ - 1]
                   /\ UNCHANGED <<pools, queues, conns>>
    /\ UNCHANGED <<pool_sizes, closed_once, dbms_in_use, modelVars, normVars, extVars>>

(***************************************************************************)
(* get_connection                                                          *)
(***************************************************************************)
\* lines 100-107: an unknown key is initialised first, with the default size
CallGetConnection(t) ==
    /\ th[t].pc = "idle"
    /\ \E d \in {dbms_in_use} :
          th' = [th EXCEPT ![t] =
                   IF pools[PoolKey(d, Cfg)] = None
                   THEN [IdleThread EXCEPT !.pc = "init_alloc", !.dbms = d,
                                           !.i = DefaultPoolSize, !.ret = "gc"]
                   ELSE [IdleThread EXCEPT !.pc = "gc_wait", !.dbms = d,
                                           !.q = pools[PoolKey(d, Cfg)]]]
    /\ UNCHANGED <<pools, pool_sizes, queues, conns, closed_once, dbms_in_use, modelVars, normVars, extVars>>

\* a get that hands out the head and leaves it in the queue
QueueAfterGetKeepsHead(items) == items

\* Queue.get: what is left in the queue once the head has been handed out
QueueAfterGet(items) == Tail(items)

\* line 107: Queue.get(timeout=5) returns the head of the queue
Get(t) ==
    /\ th[t].pc = "gc_wait"
    /\ queues[th[t].q].items # << >>
    /\ Commit(pools,
              [queues EXCEPT ![th[t].q].items = QueueAfterGet(@)],
              conns,
              [th EXCEPT ![t].pc = "holding", ![t].q = None,
                         ![t].conn = Head(queues[th[t].q].items)])
    /\ UNCHANGED <<pool_sizes, closed_once, dbms_in_use, modelVars, normVars, extVars>>

\* line 107: the queue stayed empty for the whole timeout; queue.Empty is
\* raised, connection is still None and the finally block does nothing
Timeout(t) ==
    /\ th[t].pc = "gc_wait"
    /\ queues[th[t].q].items = << >>
    /\ Commit(pools, queues, conns,
              [th EXCEPT ![t] = [IdleThread EXCEPT !.err = "Empty"]])
    /\ UNCHANGED <<pool_sizes, closed_once, dbms_in_use, modelVars, normVars, extVars>>

\* the body of the with block closes the connection it was given
BodyClose(t) ==
    /\ th[t].pc = "holding"
    /\ conns[th[t].conn] = "open"
    /\ conns' = [conns EXCEPT ![th[t].conn] = "closed"]
    /\ UNCHANGED <<pools, pool_sizes, queues, th, closed_once, dbms_in_use, modelVars, normVars, extVars>>

\* lines 108-122: the body of the with block ends, normally or by raising, and
\* the finally block runs.  put() blocks while the queue is full.
Release(t) ==
    /\ th[t].pc = "holding"
    /\ \E raised \in BOOLEAN :
       LET q == pools[ThKey(t)]
           c == th[t].conn
           ts == [th EXCEPT ![t] =
                    [IdleThread EXCEPT !.err = IF raised THEN "body" ELSE "none"]]
       IN  IF ProbePasses(th[t].dbms, c)
           THEN /\ Len(queues[q].items) < queues[q].maxsize
                /\ Commit(pools, [queues EXCEPT ![q].items = Append(@, c)],
                          conns, ts)
           ELSE \E ok \in CreateOutcomes(th[t].dbms) :
                  IF ok
                  THEN /\ FreeConns # {}
                       /\ Len(queues[q].items) < queues[q].maxsize
                       /\ LET n == Min(FreeConns) IN
                          Commit(pools,
                                 [queues EXCEPT ![q].items = Append(@, n)],
                                 [conns EXCEPT ![n] = "open"], ts)
                  ELSE Commit(pools, queues, conns, ts)
    /\ UNCHANGED <<pool_sizes, closed_once, dbms_in_use, modelVars, normVars, extVars>>

(***************************************************************************)
(* close_all                                                               *)
(***************************************************************************)
InitialisedKeys == {k \in PoolKeys : pools[k] # None}

\* the connections close_all finds in the queues (lines 127-132)
DrainedConns == UNION {SeqRange(queues[pools[k]].items) : k \in InitialisedKeys}

\* the keys whose old Queue object stays alive because a thread is blocked in
\* its get(): the Queue installed at line 133 is another object
WaitedKeys == {k \in InitialisedKeys : \E t \in Threads : th[t].q = pools[k]}

\* lines 126-133: drain and close what is in each queue, then install an empty
\* Queue(maxsize=self.pool_sizes[pool_key]) under the same key
CloseAll(t) ==
    /\ th[t].pc = "idle"
    /\ InitialisedKeys # {}
    /\ Cardinality(WaitedKeys) <= Cardinality(FreeQueues)
    /\ LET fresh == CHOOSE f \in [WaitedKeys -> FreeQueues] :
                        \A j, k \in WaitedKeys : j # k => f[j] # f[k]
           ps == [k \in PoolKeys |-> IF k \in WaitedKeys THEN fresh[k] ELSE pools[k]]
           drained == [q \in 1..MaxQueues |->
                         IF \E k \in InitialisedKeys : pools[k] = q
                         THEN [queues[q] EXCEPT !.items = << >>] ELSE queues[q]]
           qs == [q \in 1..MaxQueues |->
                    IF \E k \in InitialisedKeys : ps[k] = q
                    THEN [items |-> << >>,
                          maxsize |-> pool_sizes[CHOOSE k \in InitialisedKeys : ps[k] = q]]
                    ELSE drained[q]]
       IN  /\ pools' = ps
           /\ queues' = qs
           /\ conns' = [c \in 1..MaxConns |->
                          IF c \in DrainedConns THEN "closed" ELSE conns[c]]
    /\ th' = [th EXCEPT ![t] = IdleThread]
    /\ closed_once' = TRUE
    /\ UNCHANGED <<pool_sizes, dbms_in_use, modelVars, normVars, extVars>>

(***************************************************************************)
(* The pool: what the claims speak of.                                     *)
(***************************************************************************)
\* connections in the queue self.pools holds for key k
Available(k) == queues[pools[k]].items

\* callers that hold a connection of key k: between the yield and the finally
InUse(k) == {t \in Threads : th[t].pc = "holding" /\ ThKey(t) = k}

\* a thread is inside initialize_pool for key k
Initialising(k) ==
    \E t \in Threads : th[t].pc \in {"init_alloc", "init_fill"} /\ ThKey(t) = k

Last(s) == s[Len(s)]

\* C1: for every pool key that has been initialised, after any sequence of
\* acquisitions and releases (no close_all), the available connections plus
\* the checked-out connections number exactly the configured size.
C1_AvailablePlusInUseIsSize ==
    \A k \in PoolKeys :
        (pools[k] # None /\ ~Initialising(k) /\ ~closed_once)
            => Len(Available(k)) + Cardinality(InUse(k)) = pool_sizes[k]

\* C2: a pooled connection is held by at most one caller, and while a caller
\* holds it no queue offers it to another caller.
C2_ExclusiveCheckout ==
    \A t \in Threads :
        th[t].pc = "holding" =>
            /\ \A u \in Threads \ {t} : th[u].conn # th[t].conn
            /\ \A q \in 1..MaxQueues : th[t].conn \notin SeqRange(queues[q].items)

\* two callers hold connections of the same pool at once
C2_TwoCallersHolding ==
    \E t, u \in Threads :
        /\ t # u
        /\ th[t].pc = "holding" /\ th[u].pc = "holding"
        /\ ThKey(t) = ThKey(u)

\* C3: a caller blocked on an exhausted pool gets a connection as soon as a
\* holder of that pool leaves its scope (its queue is no longer empty, so the
\* get returns instead of timing out), and a get that times out raises the
\* pool-timeout error and leaves the pools, the queues and the other callers
\* as they were.
C3_BlockedCallerServedOrTimesOut ==
    [][ /\ \A t, u \in Threads :
             ( /\ Release(t)
               /\ th[u].pc = "gc_wait"
               /\ th[u].q = pools[ThKey(t)]
               /\ queues[th[u].q].items = << >> )
                 => queues'[th[u].q].items # << >>
        /\ \A u \in Threads :
             Timeout(u) =>
                 /\ th'[u].err = "Empty"
                 /\ pools' = pools
                 /\ \A k \in InitialisedKeys : queues'[pools[k]] = queues[pools[k]]
                 /\ \A t \in Threads \ {u} : th'[t] = th[t]
      ]_vars

\* C4: when a scope exits, normally or by an exception, the slot is back in
\* the available set: the queue of the key is one longer and its new last
\* element is the connection the caller held or a connection created for it.
C4_ScopeExitReturnsSlot ==
    [][ \A t \in Threads :
          Release(t) =>
             LET k == ThKey(t) IN
             /\ Len(queues'[pools'[k]].items) = Len(Available(k)) + 1
             /\ \/ Last(queues'[pools'[k]].items) = th[t].conn
                \/ Last(queues'[pools'[k]].items) \in FreeConns
      ]_vars

\* C5: after close_all every connection that was in a queue and every
\* connection checked out at the time of the call is closed, and no pool has
\* an available or an in-use connection.
C5_CloseAllClosesEveryConnection ==
    [][ \A t \in Threads :
          CloseAll(t) =>
             /\ \A c \in DrainedConns : conns'[c] = "closed"
             /\ \A u \in Threads : th[u].conn # None => conns'[th[u].conn] = "closed"
             /\ \A k \in InitialisedKeys :
                   /\ queues'[pools'[k]].items = << >>
                   /\ \A u \in Threads : ~(th'[u].pc = "holding" /\ ThKey(u) = k)
      ]_vars

\* C6: on release a connection that passes the probe is appended to the queue
\* as the same object, and one that fails the probe is replaced in the queue
\* by exactly one newly created, open connection.
C6_ReleaseKeepsOrReplaces ==
    [][ \A t \in Threads :
          Release(t) =>
             LET k == ThKey(t)
                 c == th[t].conn
             IN  IF ProbePasses(th[t].dbms, c)
                 THEN queues'[pools'[k]].items = Append(Available(k), c)
                 ELSE \E n \in FreeConns :
                        /\ queues'[pools'[k]].items = Append(Available(k), n)
                        /\ conns'[n] = "open"
      ]_vars

(***************************************************************************)
(* Python values.  A value is a record [t, v]: its type and its content.   *)
(* A str is the sequence of its characters.  A dict is the sequence of its *)
(* items [k, v] in insertion order; a key is the sequence of the words of  *)
(* its text, so that f"{key} >= ?" is key \o <<">=", "?">>.                *)
(***************************************************************************)
IntV(n) == [t |-> "int", v |-> n]
StrV(s) == [t |-> "str", v |-> s]
ListV(l) == [t |-> "list", v |-> l]
TupleV(l) == [t |-> "tuple", v |-> l]
DictV(d) == [t |-> "dict", v |-> d]
DateV(d) == [t |-> "datetime", v |-> d]
OidV(h) == [t |-> "ObjectId", v |-> h]
Item(key, value) == [k |-> key, v |-> value]

\* what a call returns: a dict, or the exception it raised
Returned(d) == [ok |-> TRUE, d |-> d, err |-> "none"]
Raised(e) == [ok |-> FALSE, d |-> << >>, err |-> e]
NotRun == Raised("not run")

Digits == <<"0", "1", "2", "3", "4", "5", "6", "7", "8", "9">>

\* str(n) of a natural number
RECURSIVE IntStr(_)
IntStr(n) ==
    IF n < 10 THEN <<Digits[n + 1]>>
    ELSE IntStr(n \div 10) \o <<Digits[(n % 10) + 1]>>

\* str(x) of an int, a str or an ObjectId
PyStr(x) == IF x.t = "int" THEN IntStr(x.v) ELSE x.v

\* bool(x)
Truthy(x) == IF x.t = "int" THEN x.v # 0
             ELSE IF x.t = "datetime" THEN TRUE
             ELSE Len(x.v) > 0

\* sep.join(parts)
RECURSIVE Join(_, _)
Join(parts, sep) ==
    IF Len(parts) = 0 THEN << >>
    ELSE IF Len(parts) = 1 THEN parts[1]
    ELSE parts[1] \o sep \o Join(Tail(parts), sep)

StartsWith(s, p) == Len(s) >= Len(p) /\ SubSeq(s, 1, Len(p)) = p

\* sep in s
Contains(s, sep) ==
    \E n \in 1..(Len(s) - Len(sep) + 1) : SubSeq(s, n, n + Len(sep) - 1) = sep

\* s.split(sep), cur being the part read so far
RECURSIVE SplitFrom(_, _, _)
SplitFrom(s, sep, cur) ==
    IF Len(s) = 0 THEN <<cur>>
    ELSE IF StartsWith(s, sep)
         THEN <<cur>> \o SplitFrom(SubSeq(s, Len(sep) + 1, Len(s)), sep, << >>)
         ELSE SplitFrom(Tail(s), sep, Append(cur, Head(s)))

Split(s, sep) == SplitFrom(s, sep, << >>)

\* the separator of a list stored in one column
Sep == <<":", ":">>

\* json.dumps of a dict of ints and strs
JsonScalar(x) == IF x.t = "int" THEN IntStr(x.v) ELSE <<"\"">> \o x.v \o <<"\"">>

JsonItem(it) == <<"\"">> \o it.k \o <<"\"", ":", " ">> \o JsonScalar(it.v)

JsonDumps(d) ==
    <<"{">> \o Join([n \in 1..Len(d) |-> JsonItem(d[n])], <<",", " ">>) \o <<"}">>

\* datetime.isoformat of the datetime <<day, hour>> of January 2024
TwoDigits(n) == <<Digits[(n \div 10) + 1], Digits[(n % 10) + 1]>>

IsoFormat(dt) ==
    <<"2", "0", "2", "4", "-", "0", "1", "-">> \o TwoDigits(dt[1]) \o <<"T">>
        \o TwoDigits(dt[2]) \o <<":", "0", "0", ":", "0", "0">>

DateTimes == {<<day, hour>> : day \in 1..31, hour \in 0..23}

\* datetime.fromisoformat parses what isoformat prints, and raises ValueError
\* on any other text
IsIsoText(s) == \E dt \in DateTimes : IsoFormat(dt) = s
FromIsoFormat(s) == CHOOSE dt \in DateTimes : IsoFormat(dt) = s

\* ObjectId(x): an ObjectId, or the 24 hexadecimal digits of one
HexDigits == {"0", "1", "2", "3", "4", "5", "6", "7", "8", "9",
              "a", "b", "c", "d", "e", "f"}
OidHexLen == 2 * 12
IsOidText(s) == Len(s) = OidHexLen /\ \A n \in 1..Len(s) : s[n] \in HexDigits
CanBeObjectId(x) == x.t = "ObjectId" \/ (x.t = "str" /\ IsOidText(x.v))
ObjectId(x) == OidV(x.v)

\* dict operations
HasKey(d, key) == \E n \in 1..Len(d) : d[n].k = key
Lookup(d, key) == d[CHOOSE n \in 1..Len(d) : d[n].k = key].v
DictSet(d, key, value) ==
    IF HasKey(d, key)
    THEN [n \in 1..Len(d) |-> IF d[n].k = key THEN Item(key, value) ELSE d[n]]
    ELSE Append(d, Item(key, value))
DictPop(d, key) == SelectSeq(d, LAMBDA it : it.k # key)

\* value equality (==) of Python values, of dict items and of dicts
ScalarEq(x, y) == x.t = y.t /\ x.v = y.v
ItemsEq(a, b) ==
    /\ Len(a) = Len(b)
    /\ \A n \in 1..Len(a) : HasKey(b, a[n].k) /\ ScalarEq(a[n].v, Lookup(b, a[n].k))
ValEq(x, y) ==
    /\ x.t = y.t
    /\ IF x.t \in {"list", "tuple"}
       THEN Len(x.v) = Len(y.v) /\ \A n \in 1..Len(x.v) : ScalarEq(x.v[n], y.v[n])
       ELSE IF x.t = "dict" THEN ItemsEq(x.v, y.v)
       ELSE x.v = y.v
DictEq(a, b) ==
    /\ Len(a) = Len(b)
    /\ \A n \in 1..Len(a) : HasKey(b, a[n].k) /\ ValEq(a[n].v, Lookup(b, a[n].k))

(***************************************************************************)
(* Model.normalise                                                         *)
(***************************************************************************)
\* the words that start with '$'
DollarWords == {"$lt", "$lte", "$gt", "$gte", "$ne", "$in", "$nin", "$regex"}

\* isinstance(value, dict) and all(k.startswith('$') for k in value.keys())
OperatorDict(x) == x.t = "dict" /\ \A n \in 1..Len(x.v) : Head(x.v[n].k) \in DollarWords

\* the text each operator adds to the key, lines 238-251
OpText(op) ==
    CASE op = "$lt" -> <<"<", "?">>
      [] op = "$lte" -> <<"<=", "?">>
      [] op = "$gt" -> <<">", "?">>
      [] op = "$gte" -> <<">=", "?">>
      [] op = "$ne" -> <<"!=", "?">>
      [] op = "$in" -> <<"IN", "?">>
      [] op = "$nin" -> <<"NOT", "IN", "?">>

\* tuple(val)
CanBeTuple(x) == x.t \in {"list", "tuple", "str"}
Tuple(x) == IF x.t = "str" THEN TupleV([n \in 1..Len(x.v) |-> StrV(<<x.v[n]>>)])
            ELSE TupleV(x.v)

\* lines 237-251: the loop over the operators of one field
RECURSIVE NormOperators(_, _, _)
NormOperators(normalized, key, ops) ==
    IF Len(ops) = 0 THEN Returned(normalized)
    ELSE LET op == Head(ops[1].k)
             val == ops[1].v
         IN  IF op \in {"$in", "$nin"}
             THEN IF CanBeTuple(val)
                  THEN NormOperators(DictSet(normalized, key \o OpText(op), Tuple(val)),
                                     key, Tail(ops))
                  ELSE Raised("TypeError")
             ELSE IF op \in {"$lt", "$lte", "$gt", "$gte", "$ne"}
                  THEN NormOperators(DictSet(normalized, key \o OpText(op), val),
                                     key, Tail(ops))
                  ELSE NormOperators(normalized, key, Tail(ops))

\* lines 254-263: a value that is no operator dict
NormValue(x) ==
    IF x.t = "ObjectId" THEN StrV(PyStr(x))
    ELSE IF x.t = "list" THEN StrV(Join([n \in 1..Len(x.v) |-> PyStr(x.v[n])], Sep))
    ELSE IF x.t = "datetime" THEN StrV(IsoFormat(x.v))
    ELSE IF x.t = "dict" THEN StrV(JsonDumps(x.v))
    ELSE x

\* lines 233-264: the 'params' direction of a relational backend
RECURSIVE NormParamsSql(_, _)
NormParamsSql(items, normalized) ==
    IF Len(items) = 0 THEN Returned(normalized)
    ELSE LET key == items[1].k
             value == items[1].v
         IN  IF OperatorDict(value)
             THEN LET r == NormOperators(normalized, key, value.v)
                  IN  IF r.ok THEN NormParamsSql(Tail(items), r.d) ELSE r
             ELSE NormParamsSql(Tail(items), DictSet(normalized, key, NormValue(value)))

\* lines 267-273: one value of the 'dbresult' direction of a relational backend
DbresultValue(key, value) ==
    IF value.t = "str" /\ Contains(value.v, Sep)
    THEN LET parts == Split(value.v, Sep)
         IN  ListV([n \in 1..Len(parts) |-> StrV(parts[n])])
    ELSE IF key \in {<<"created_at">>, <<"updated_at">>} /\ Truthy(value)
         THEN IF value.t = "str" /\ IsIsoText(value.v)
              THEN DateV(FromIsoFormat(value.v))
              ELSE value
         ELSE value

NormDbresultSql(content) ==
    Returned([n \in 1..Len(content) |->
                 Item(content[n].k, DbresultValue(content[n].k, content[n].v))])

\* lines 224-229: the document store
NormMongo(content, optype) ==
    IF optype = "dbresult"
    THEN IF HasKey(content, <<"_id">>)
         THEN Returned(DictSet(DictPop(content, <<"_id">>), <<"id">>,
                               StrV(PyStr(Lookup(content, <<"_id">>)))))
         ELSE Raised("KeyError")
    ELSE IF HasKey(content, <<"id">>)
         THEN IF CanBeObjectId(Lookup(content, <<"id">>))
              THEN Returned(DictSet(DictPop(content, <<"id">>), <<"_id">>,
                                    ObjectId(Lookup(content, <<"id">>))))
              ELSE Raised(IF Lookup(content, <<"id">>).t = "str"
                          THEN "InvalidId" ELSE "TypeError")
         ELSE Returned(content)

\* Model.normalise(content, optype) with DBMS.Database = db
Normalise(content, optype, db) ==
    IF db = "None" THEN Raised("RuntimeError: Database not initialized")
    ELSE IF db = "mongodb" THEN NormMongo(content, optype)
    ELSE IF optype = "params" THEN NormParamsSql(content, << >>)
    ELSE NormDbresultSql(content)

(***************************************************************************)
(* The normaliser, called on its own: a content is normalised in the       *)
(* 'params' direction and the result in the 'dbresult' direction.          *)
(***************************************************************************)
\* a 24-digit identifier text
OidText == [n \in 1..OidHexLen |-> "a"]

\* the values a field of a content takes
FieldValues == <<
    IntV(30),
    StrV(<<"b", "o">>),
    StrV(<<"a", ":", ":", "b">>),
    StrV(OidText),
    OidV(OidText),
    ListV(<<IntV(1), IntV(2)>>),
    ListV(<<StrV(<<"a">>), StrV(<<"b">>)>>),
    ListV(<<StrV(<<"a">>)>>),
    ListV(<< >>),
    DictV(<<Item(<<"k">>, IntV(1))>>),
    DictV(<< >>),
    DateV(<<2, 3>>),
    DictV(<<Item(<<"$gte">>, IntV(30))>>),
    DictV(<<Item(<<"$ne">>, IntV(30))>>),
    DictV(<<Item(<<"$in">>, ListV(<< >>))>>),
    DictV(<<Item(<<"$in">>, ListV(<<IntV(1)>>))>>),
    DictV(<<Item(<<"$in">>, ListV(<<IntV(1), IntV(2)>>))>>),
    DictV(<<Item(<<"$nin">>, ListV(<<IntV(1), IntV(2)>>))>>),
    DictV(<<Item(<<"$nin">>, ListV(<<IntV(1), IntV(2), IntV(3)>>))>>),
    DictV(<<Item(<<"$regex">>, StrV(<<"b">>))>>),
    DictV(<<Item(<<"$gt">>, IntV(1)), Item(<<"$regex">>, StrV(<<"b">>))>>) >>

FieldNames == {"id", "age", "tags", "created_at"}

\* a filter term: a field whose value is a non-empty dict of operators
IsFilterValue(x) == OperatorDict(x) /\ Len(x.v) > 0
IsFilter(content) == \E n \in 1..Len(content) : IsFilterValue(content[n].v)

\* a filter term {field: {$in: S}} or {field: {$nin: S}}
IsInFilter(content) ==
    /\ Len(content) = 1
    /\ IsFilterValue(content[1].v)
    /\ Len(content[1].v.v) = 1
    /\ Head(content[1].v.v[1].k) \in {"$in", "$nin"}
InSet(content) == content[1].v.v[1].v.v

NormInit ==
    /\ \E name \in FieldNames, n \in 1..Len(FieldValues), with_id \in BOOLEAN :
          orig = (IF with_id /\ name # "id" THEN <<Item(<<"id">>, StrV(OidText))>> ELSE << >>)
                     \o <<Item(<<name>>, FieldValues[n])>>
    /\ native = NotRun
    /\ back = NotRun

\* normalise(content, 'params')
NormaliseParams ==
    /\ native.err = "not run"
    /\ native' = Normalise(orig, "params", Database)
    /\ UNCHANGED <<orig, back, poolVars, modelVars, extVars>>

\* normalise(native, 'dbresult')
NormaliseDbresult ==
    /\ native.ok
    /\ back.err = "not run"
    /\ back' = Normalise(native.d, "dbresult", Database)
    /\ UNCHANGED <<orig, native, poolVars, modelVars, extVars>>

(***************************************************************************)
(* The SQLite adapter, odbms/orms/sqlitedb.py.  The table has the columns  *)
(* id INTEGER PRIMARY KEY AUTOINCREMENT and age INTEGER.                   *)
(***************************************************************************)
ColumnNames == {"id", "age"}

\* f"{k} = :{k}": one term of the WHERE clause
WhereTerm(key) == key \o <<"=", ":">> \o key

\* cursor.execute(query, params) with a dict of parameters: sqlite3 rejects
\* the statement when a term has a '?' after IN (syntax error), when it has
\* a '?' placeholder at all (no positional value in a dict), or when it
\* names no column
ExecuteError(params) ==
    IF \E n \in 1..Len(params) : Contains(WhereTerm(params[n].k), <<"IN", "?">>)
    THEN "OperationalError"
    ELSE IF \E n \in 1..Len(params) : Contains(WhereTerm(params[n].k), <<"?">>)
    THEN "ProgrammingError"
    ELSE IF \E n \in 1..Len(params) :
              Len(params[n].k) # 1 \/ params[n].k[1] \notin ColumnNames
    THEN "OperationalError"
    ELSE "none"

\* column = :name for an INTEGER column: a text that is the decimal form of
\* the number compares equal to it
ColumnEquals(number, bound) ==
    IF bound.t = "int" THEN number = bound.v
    ELSE IF bound.t = "str" THEN IntStr(number) = bound.v
    ELSE FALSE

RowMatches(row, params) ==
    \A n \in 1..Len(params) : ColumnEquals(row[params[n].k[1]], params[n].v)

\* SQLiteDB.find: the error raised, or the rows fetched
SQLiteFind(params) ==
    IF ExecuteError(params) # "none"
    THEN [err |-> ExecuteError(params), rows |-> << >>]
    ELSE [err |-> "none", rows |-> SelectSeq(table, LAMBDA row : RowMatches(row, params))]

\* SQLiteDB.find_one: LIMIT 1 and fetchone
SQLiteFindOne(params) ==
    LET found == SQLiteFind(params)
    IN  [found EXCEPT !.rows = IF Len(@) = 0 THEN << >> ELSE <<Head(@)>>]

\* SQLiteDB.insert: a str id is deleted from the data, the row gets the next
\* rowid, which is returned; an int id that a row has already makes the
\* INSERT fail with IntegrityError, which the callers test before they insert
InsertedRow(data) ==
    [id |-> IF HasKey(data, <<"id">>) /\ Lookup(data, <<"id">>).t = "int"
            THEN Lookup(data, <<"id">>).v ELSE next_id,
     age |-> Lookup(data, <<"age">>).v]

SQLiteInsert(data) ==
    SelectSeq(table, LAMBDA row : row.id < InsertedRow(data).id)
        \o <<InsertedRow(data)>>
        \o SelectSeq(table, LAMBDA row : row.id > InsertedRow(data).id)

\* SQLiteDB.update: with no condition the statement ends in WHERE
SQLiteUpdateError(params) ==
    IF Len(params) = 0 THEN "OperationalError" ELSE ExecuteError(params)

SQLiteUpdate(params, data) ==
    [n \in 1..Len(table) |->
        IF RowMatches(table[n], params) /\ HasKey(data, <<"age">>)
        THEN [table[n] EXCEPT !.age = Lookup(data, <<"age">>).v]
        ELSE table[n]]

\* SQLiteDB.remove
SQLiteRemove(params) == SelectSeq(table, LAMBDA row : ~RowMatches(row, params))

(***************************************************************************)
(* The Model layer, odbms/model.py, for a model class with the fields id,  *)
(* age and updated_at and no relationship.                                 *)
(***************************************************************************)
HookKinds == {"before_save", "after_save", "before_delete", "after_delete"}

Ages == 1..MaxAge

NotInitialized == "RuntimeError: Database not initialized"

\* the ages an instance is given; the age field of the class is declared
\* age: int = IntegerField(min_value=1)
InstAges == 0..MaxAge
AgeField == [min_value |-> 1]

\* IntegerField.validate of an int: the value, or ValueError
IntegerFieldValidate(f, value) ==
    IF value < f.min_value THEN Raised("ValueError") ELSE Returned(value)

\* the names in self.__annotations__ of an instance: the annotations of its
\* own class, without id, created_at and updated_at of the class Model
Annotations == {"age"}

\* the n-th datetime.now() of an instance: 0 at construction, then one for
\* each save
Now(n) == DateV(<<1, n>>)

\* a new instance: id is str(ObjectId()), created_at and updated_at are
\* datetime.now(), and nothing is in self._dynamic_fields
NewModel(age) ==
    [id |-> StrV(OidText), age |-> age, created_at |-> Now(0), updated_at |-> Now(0),
     dyn |-> << >>]

\* Model.__setattr__: an annotated name is set on the instance, any other
\* name is stored in self._dynamic_fields and the attribute keeps its value
SetAttr(obj, name, value) ==
    IF name \in Annotations THEN [obj EXCEPT ![name] = value.v]
    ELSE [obj EXCEPT !.dyn = DictSet(@, <<name>>, value)]

\* Model.model_dump: the fields of the instance, updated with
\* self._dynamic_fields
RECURSIVE DictUpdate(_, _)
DictUpdate(d, other) ==
    IF Len(other) = 0 THEN d
    ELSE DictUpdate(DictSet(d, Head(other).k, Head(other).v), Tail(other))

ModelDump(obj) ==
    DictUpdate(<<Item(<<"id">>, obj.id), Item(<<"age">>, IntV(obj.age)),
                 Item(<<"created_at">>, obj.created_at),
                 Item(<<"updated_at">>, obj.updated_at)>>,
               obj.dyn)

\* the saves of the instance so far
SaveCount(obj) ==
    IF HasKey(obj.dyn, <<"updated_at">>) THEN Lookup(obj.dyn, <<"updated_at">>).v[2]
    ELSE 0

\* raise ValidationError(f"..."), line 207: the class imported from pydantic
\* has no constructor taking a message, so the call itself raises
ValidationErrorCall == "TypeError"

\* Model.validate_fields, lines 199-207
ValidateFields(obj) ==
    IF IntegerFieldValidate(AgeField, obj.age).ok THEN "none" ELSE ValidationErrorCall

NoOperation == [op |-> "none", db |-> "None", cond |-> << >>, effects |-> << >>,
                outcome |-> "none", rows |-> << >>]

\* the record of an operation: the conditions it was given, the hooks,
\* assignments and adapter calls it made, in order, and how it ended
Done(op, cond, effects, outcome, rows) ==
    [op |-> op, db |-> Database, cond |-> cond, effects |-> effects,
     outcome |-> outcome, rows |-> rows]

\* self._run_hooks(hooks)
RunHooks(kind) == IF kind \in hooks THEN <<kind>> ELSE << >>

\* the conditions the callers pass: none, an equality, or one operator with
\* an age or with the list of the first ages
CompareOps == <<"$lt", "$lte", "$gt", "$gte", "$ne">>
IntList(n) == ListV([a \in 1..n |-> IntV(a)])
Term(op, val) == <<Item(<<"age">>, DictV(<<Item(<<op>>, val)>>))>>
Filters ==
    << << >> >>
       \o [a \in Ages |-> <<Item(<<"age">>, IntV(a))>>]
       \o [n \in 1..(Len(CompareOps) * MaxAge) |->
              Term(CompareOps[((n - 1) \div MaxAge) + 1], IntV(((n - 1) % MaxAge) + 1))]
       \o [n \in 1..(MaxAge + 1) |-> Term("$in", IntList(n - 1))]
       \o [n \in 1..(MaxAge + 1) |-> Term("$nin", IntList(n - 1))]

IdParams(id) == Normalise(<<Item(<<"id">>, id)>>, "params", Database)

\* cls(**cls.normalise(result)) of a fetched row
ModelOfRow(row) ==
    LET d == Normalise(<<Item(<<"id">>, IntV(row.id)), Item(<<"age">>, IntV(row.age))>>,
                       "dbresult", Database).d
    IN  [id |-> Lookup(d, <<"id">>).v, age |-> Lookup(d, <<"age">>).v]
ModelsOfRows(rows) == [n \in 1..Len(rows) |-> ModelOfRow(rows[n])]

\* Model.__init__ of cls(**result): id is not in self.__annotations__, so it
\* is also copied to self._dynamic_fields
Loaded(m) ==
    [id |-> IntV(m.id), age |-> m.age, created_at |-> Now(0), updated_at |-> Now(0),
     dyn |-> <<Item(<<"id">>, IntV(m.id))>>]

\* DBMS.initialize('sqlite', ...)
Initialize ==
    /\ Database = "None"
    /\ Database' = "sqlite"
    /\ UNCHANGED <<hooks, table, next_id, inst, last, steps, poolVars, normVars, extVars>>

\* the caller makes a new instance of the model
NewInstance ==
    /\ \E a \in InstAges : inst' = NewModel(a)
    /\ inst' # inst
    /\ UNCHANGED <<Database, hooks, table, next_id, last, steps, poolVars, normVars, extVars>>

\* the caller assigns the age of the instance
SetAge ==
    /\ \E a \in InstAges : inst' = SetAttr(inst, "age", IntV(a))
    /\ inst' # inst
    /\ UNCHANGED <<Database, hooks, table, next_id, last, steps, poolVars, normVars, extVars>>

\* the caller keeps the instance Model.get returned
KeepFetched ==
    /\ last.op = "get" /\ Len(last.rows) > 0
    /\ inst' = Loaded(last.rows[1])
    /\ inst' # inst
    /\ UNCHANGED <<Database, hooks, table, next_id, last, steps, poolVars, normVars, extVars>>

\* the statements of Model.save up to the lookup, lines 629-639
SaveToStamp == <<"before_save", "validate_fields", "compute_fields", "updated_at">>

\* Model.save, lines 627-684
ModelSave ==
    /\ SaveCount(inst) < MaxStamps
    /\ LET started == RunHooks("before_save")
           stamped == SetAttr(inst, "updated_at", Now(SaveCount(inst) + 1))
           data == ModelDump(stamped)
       IN  IF ValidateFields(inst) # "none"
           THEN /\ last' = Done("save", << >>, started, ValidateFields(inst), << >>)
                /\ steps' = SubSeq(SaveToStamp, 1, 2)
                /\ UNCHANGED <<inst, table, next_id>>
           ELSE IF Database = "None"
           THEN /\ inst' = stamped
                /\ last' = Done("save", << >>, started \o <<"updated_at = now">>,
                                NotInitialized, << >>)
                /\ steps' = SaveToStamp
                /\ UNCHANGED <<table, next_id>>
           ELSE LET existing == SQLiteFindOne(IdParams(inst.id).d).rows
                    values == Normalise(data, "params", Database).d
                IN  IF /\ Len(existing) = 0
                       /\ \E n \in 1..Len(table) : table[n].id = InsertedRow(values).id
                    THEN /\ inst' = stamped
                         /\ last' = Done("save", << >>,
                                         started \o <<"updated_at = now", "find_one", "insert">>,
                                         "IntegrityError", << >>)
                         /\ steps' = SaveToStamp \o <<"find_one", "insert">>
                         /\ UNCHANGED <<table, next_id>>
                    ELSE IF Len(existing) = 0
                    THEN /\ next_id <= MaxRows
                         /\ table' = SQLiteInsert(values)
                         /\ next_id' = IF InsertedRow(values).id = next_id
                                       THEN next_id + 1 ELSE next_id
                         /\ inst' = SetAttr(stamped, "id",
                                            StrV(IntStr(InsertedRow(values).id)))
                         /\ last' = Done("save", << >>,
                                         started \o <<"updated_at = now", "find_one", "insert">>
                                             \o RunHooks("after_save"), "ok", << >>)
                         /\ steps' = SaveToStamp
                                         \o <<"find_one", "insert", "id = result", "after_save">>
                    ELSE /\ table' = SQLiteUpdate(IdParams(inst.id).d, values)
                         /\ inst' = stamped
                         /\ last' = Done("save", << >>,
                                         started \o <<"updated_at = now", "find_one", "update">>
                                             \o RunHooks("after_save"), "ok", << >>)
                         /\ steps' = SaveToStamp \o <<"find_one", "update", "after_save">>
                         /\ UNCHANGED next_id
    /\ UNCHANGED <<Database, hooks, poolVars, normVars, extVars>>

\* Model.delete, lines 303-326
ModelDelete ==
    /\ IF Database = "None"
       THEN /\ last' = Done("delete", << >>, RunHooks("before_delete"),
                            NotInitialized, << >>)
            /\ UNCHANGED table
       ELSE /\ table' = SQLiteRemove(IdParams(inst.id).d)
            /\ last' = Done("delete", << >>,
                            RunHooks("before_delete") \o <<"remove">>
                                \o RunHooks("after_delete"), "ok", << >>)
    /\ UNCHANGED <<Database, hooks, next_id, inst, steps, poolVars, normVars, extVars>>

\* Model.get, lines 276-282
ModelGet ==
    /\ \E n \in 1..MaxRows :
          last' = IF Database = "None"
                  THEN Done("get", << >>, << >>, NotInitialized, << >>)
                  ELSE Done("get", << >>, <<"find_one">>, "ok",
                            ModelsOfRows(SQLiteFindOne(IdParams(StrV(IntStr(n))).d).rows))
    /\ UNCHANGED <<Database, hooks, table, next_id, inst, steps, poolVars, normVars, extVars>>

\* what a save of the instance leaves, for the blocking form "save" (lines
\* 627-682) and the non-blocking form "save_async" (374-439): the two differ
\* in the identifier they adopt after an insert, str(result) against result.
\* An insert of an id that a row already has raises IntegrityError.
Adopted(form, rowid) == IF form = "save" THEN StrV(IntStr(rowid)) ELSE IntV(rowid)
Saved(form) ==
    LET stamped == SetAttr(inst, "updated_at", Now(SaveCount(inst) + 1))
        values == Normalise(ModelDump(stamped), "params", Database).d
    IN  IF ValidateFields(inst) # "none"
        THEN [inst |-> inst, table |-> table, next_id |-> next_id,
              outcome |-> ValidateFields(inst), write |-> "none"]
        ELSE IF Database = "None"
        THEN [inst |-> stamped, table |-> table, next_id |-> next_id,
              outcome |-> NotInitialized, write |-> "none"]
        ELSE IF Len(SQLiteFindOne(IdParams(inst.id).d).rows) > 0
        THEN [inst |-> stamped, table |-> SQLiteUpdate(IdParams(inst.id).d, values),
              next_id |-> next_id, outcome |-> "ok", write |-> "update"]
        ELSE IF \E n \in 1..Len(table) : table[n].id = InsertedRow(values).id
        THEN [inst |-> stamped, table |-> table, next_id |-> next_id,
              outcome |-> "IntegrityError", write |-> "none"]
        ELSE [inst |-> SetAttr(stamped, "id", Adopted(form, InsertedRow(values).id)),
              table |-> SQLiteInsert(values),
              next_id |-> IF InsertedRow(values).id = next_id THEN next_id + 1 ELSE next_id,
              outcome |-> "ok", write |-> "insert"]

\* Model.save_async, lines 374-439
ModelSaveAsync ==
    /\ SaveCount(inst) < MaxStamps
    /\ Saved("save_async").write = "insert" => next_id <= MaxRows
    /\ inst' = Saved("save_async").inst
    /\ table' = Saved("save_async").table
    /\ next_id' = Saved("save_async").next_id
    /\ last' = Done("save_async", << >>,
                    RunHooks("before_save")
                        \o (IF Saved("save_async").outcome = "ok"
                            THEN RunHooks("after_save") ELSE << >>),
                    Saved("save_async").outcome, << >>)
    /\ UNCHANGED <<Database, hooks, steps, poolVars, normVars, extVars>>

\* Model.delete_async, lines 469-499
ModelDeleteAsync ==
    /\ IF Database = "None"
       THEN /\ last' = Done("delete_async", << >>, RunHooks("before_delete"),
                            NotInitialized, << >>)
            /\ UNCHANGED table
       ELSE /\ table' = SQLiteRemove(IdParams(inst.id).d)
            /\ last' = Done("delete_async", << >>,
                            RunHooks("before_delete") \o <<"remove_async">>
                                \o RunHooks("after_delete"), "ok", << >>)
    /\ UNCHANGED <<Database, hooks, next_id, inst, steps, poolVars, normVars, extVars>>

\* C25: from every state, save_async leaves the stored records and the
\* identifier on the entity (value and representation) that save leaves, and
\* delete_async removes the records that delete removes
C25_AsyncFormsEquivalent ==
    [][/\ ModelSaveAsync =>
              /\ table' = Saved("save").table
              /\ inst' = Saved("save").inst
              /\ last'.outcome = Saved("save").outcome
       /\ ModelDeleteAsync =>
              table' = IF Database = "None" THEN table
                       ELSE SQLiteRemove(IdParams(inst.id).d)]_vars

\* the function Saved agrees with the action ModelSave
SavedIsSave ==
    [][ModelSave => /\ table' = Saved("save").table
                    /\ inst' = Saved("save").inst
                    /\ next_id' = Saved("save").next_id
                    /\ last'.outcome = Saved("save").outcome]_vars

\* the shared body of find, find_one and all: the check, the normalised
\* conditions and the adapter call
Query(op, call, cond) ==
    IF Database = "None"
    THEN Done(op, cond, << >>, NotInitialized, << >>)
    ELSE LET params == IF Len(cond) > 0 THEN Normalise(cond, "params", Database)
                       ELSE Returned(<< >>)
             found == IF call = "find" THEN SQLiteFind(params.d)
                      ELSE SQLiteFindOne(params.d)
         IN  IF ~params.ok THEN Done(op, cond, << >>, params.err, << >>)
             ELSE IF found.err # "none" THEN Done(op, cond, <<call>>, found.err, << >>)
             ELSE Done(op, cond, <<call>>, "ok", ModelsOfRows(found.rows))

\* Model.find, lines 501-508
ModelFind ==
    /\ \E f \in 1..Len(Filters) :
          last' = Query("find", "find", Filters[f])
    /\ UNCHANGED <<Database, hooks, table, next_id, inst, steps, poolVars, normVars, extVars>>

\* Model.find_one, lines 510-517
ModelFindOne ==
    /\ \E f \in 1..Len(Filters) :
          last' = Query("find_one", "find_one", Filters[f])
    /\ UNCHANGED <<Database, hooks, table, next_id, inst, steps, poolVars, normVars, extVars>>

\* Model.all, lines 519-522
ModelAll ==
    /\ last' = [Query("find", "find", << >>) EXCEPT !.op = "all"]
    /\ UNCHANGED <<Database, hooks, table, next_id, inst, steps, poolVars, normVars, extVars>>

\* Model.update, lines 547-566
ModelUpdate ==
    /\ \E f \in 1..Len(Filters), b \in Ages :
          LET cond == Filters[f]
              params == Normalise(cond, "params", Database)
              values == Normalise(<<Item(<<"age">>, IntV(b))>>, "params", Database)
          IN  IF Database = "None"
              THEN /\ last' = Done("update", cond, << >>, NotInitialized, << >>)
                   /\ UNCHANGED table
              ELSE IF ~params.ok
              THEN /\ last' = Done("update", cond, << >>, params.err, << >>)
                   /\ UNCHANGED table
              ELSE IF SQLiteUpdateError(params.d) # "none"
              THEN /\ last' = Done("update", cond, <<"update">>,
                                   SQLiteUpdateError(params.d), << >>)
                   /\ UNCHANGED table
              ELSE /\ last' = Done("update", cond, <<"update">>, "ok", << >>)
                   /\ table' = SQLiteUpdate(params.d, values.d)
    /\ UNCHANGED <<Database, hooks, next_id, inst, steps, poolVars, normVars, extVars>>

\* Model.remove, lines 568-585
ModelRemove ==
    /\ \E f \in 1..Len(Filters) :
          LET cond == Filters[f]
              params == Normalise(cond, "params", Database)
          IN  IF Database = "None"
              THEN /\ last' = Done("remove", cond, << >>, NotInitialized, << >>)
                   /\ UNCHANGED table
              ELSE IF ~params.ok
              THEN /\ last' = Done("remove", cond, << >>, params.err, << >>)
                   /\ UNCHANGED table
              ELSE IF SQLiteUpdateError(params.d) # "none"
              THEN /\ last' = Done("remove", cond, <<"remove">>,
                                   SQLiteUpdateError(params.d), << >>)
                   /\ UNCHANGED table
              ELSE /\ last' = Done("remove", cond, <<"remove">>, "ok", << >>)
                   /\ table' = SQLiteRemove(params.d)
    /\ UNCHANGED <<Database, hooks, next_id, inst, steps, poolVars, normVars, extVars>>

(***************************************************************************)
(* The Model layer and the normaliser: what the claims speak of.           *)
(***************************************************************************)
\* the comparison an operator stands for
Satisfies(age, op, val) ==
    CASE op = "$lt" -> age < val.v
      [] op = "$lte" -> age <= val.v
      [] op = "$gt" -> age > val.v
      [] op = "$gte" -> age >= val.v
      [] op = "$ne" -> age # val.v
      [] op = "$in" -> \E n \in 1..Len(val.v) : val.v[n].v = age
      [] op = "$nin" -> \A n \in 1..Len(val.v) : val.v[n].v # age

\* the operator and the value of the filter term {age: {op: val}}
FilterOp(cond) == Head(cond[1].v.v[1].k)
FilterVal(cond) == cond[1].v.v[1].v

\* C7: an operation called while DBMS.Database is None ends in the
\* 'not initialized' error and has run no hook, changed no field of the
\* instance and called no adapter method before it.
C7_NotInitializedFailsFirst ==
    (last.op # "none" /\ last.db = "None")
        => (last.outcome = NotInitialized /\ last.effects = << >>)

\* a record of scalars, lists, mappings, timestamps and identifiers: no
\* filter term, and an id that is an identifier
IsCanonicalRecord(content) ==
    /\ ~IsFilter(content)
    /\ HasKey(content, <<"id">>) => CanBeObjectId(Lookup(content, <<"id">>))

\* C8: normalising a record of scalars, lists, mappings, timestamps and
\* identifiers in the 'params' direction and the result in the 'dbresult'
\* direction raises nothing and gives a record equal to the first, for the
\* document store and for the relational family.
C8_NormaliseRoundTrip ==
    IsCanonicalRecord(orig) =>
        /\ native.err # "not run" => native.ok
        /\ back.err # "not run" => (back.ok /\ DictEq(back.d, orig))

\* C9: the relational translation of a term {field: {$in: S}} or
\* {field: {$nin: S}} binds one parameter for each element of S, and no
\* parameter that is the whole of S.
C9_InBindsOneParameterPerElement ==
    (Database = "sqlite" /\ native.ok /\ IsInFilter(orig)) =>
        /\ Len(native.d) = Len(InSet(orig))
        /\ \A n \in 1..Len(native.d) : native.d[n].v.t \notin {"tuple", "list"}

\* C10: Model.find with one comparison operator on a relational backend
\* returns the stored records whose field satisfies the comparison, and
\* only those.
C10_FindReturnsMatchingRecords ==
    (last.op = "find" /\ last.db = "sqlite" /\ IsFilter(last.cond)) =>
        /\ last.outcome = "ok"
        /\ last.rows = SelectSeq(table, LAMBDA row :
                           Satisfies(row.age, FilterOp(last.cond), FilterVal(last.cond)))

(***************************************************************************)
(* The relational adapters: SQLiteDB (odbms/orms/sqlitedb.py), SqliteDB    *)
(* (odbms/sqlitedb.py), ORM (odbms/orms/base.py) and PostgresqlDB          *)
(* (odbms/orms/postgresqldb.py), each on its own driver and on a table     *)
(* users(id INTEGER PRIMARY KEY AUTOINCREMENT, name TEXT, age INTEGER).    *)
(***************************************************************************)
AdapterKinds == {"SQLiteDB", "SqliteDB", "ORM", "PostgresqlDB"}

\* the adapters that define count and sum
Aggregating == {"SqliteDB", "ORM", "PostgresqlDB"}

UserColumns == {"id", "name", "age"}
Names == << <<"a">>, <<"b">> >>

NoneV == [t |-> "None", v |-> << >>]
BoolV(b) == [t |-> "bool", v |-> b]
RowsV(rows) == [t |-> "list", v |-> rows]
RowV(row) == [t |-> "row", v |-> row]
\* {'status': 'Error', 'message': str(e)}
ErrorDict(e) == [t |-> "dict", v |-> <<Item(<<"status">>, StrV(<<"Error">>)),
                                      Item(<<"message">>, StrV(<<e>>))>>]

\* the filters the callers pass: none, an id, an age, or a name and an age
UserFilters ==
    << << >> >>
       \o [n \in 1..MaxUsers |-> <<Item(<<"id">>, IntV(n))>>]
       \o [a \in Ages |-> <<Item(<<"age">>, IntV(a))>>]
       \o [n \in 1..Len(Names) |->
              <<Item(<<"name">>, StrV(Names[n])), Item(<<"age">>, IntV(1))>>]

\* the patches the callers pass: a new age or a new name
UserPatches ==
    [a \in Ages |-> <<Item(<<"age">>, IntV(a))>>]
       \o <<  <<Item(<<"name">>, StrV(Names[1]))>>  >>

\* one comparison of the conditions, as each adapter formats it
EqualsTerm(kind, op, key) ==
    CASE kind = "SQLiteDB" ->
             IF op = "update" THEN key \o <<"=", ":", "where_">> \o key
             ELSE WhereTerm(key)
      [] kind = "SqliteDB" -> key \o <<"=", "?">>
      [] kind = "ORM" -> key \o <<"=", "%s">>
      [] kind = "PostgresqlDB" ->
             IF op = "sum" THEN <<"Identifier(">> \o key \o <<")", "=", "%s">>
             ELSE key \o <<"=", "%s">>

\* the separator each adapter puts between two comparisons
TermSeparator(kind) == IF kind = "SqliteDB" THEN <<",">> ELSE <<"AND">>

\* the conditions of a statement: the comparisons of the filter, joined
Conditions(kind, op, params) ==
    Join([n \in 1..Len(params) |-> EqualsTerm(kind, op, params[n].k)],
         TermSeparator(kind))

\* the parameters bound to the statement's conditions
Binds(params) == [n \in 1..Len(params) |-> params[n].v]

\* the statement from its WHERE on
WhereClause(kind, op, params) ==
    LET cond == Conditions(kind, op, params)
        limit == IF op = "find_one" THEN <<"LIMIT", "1">> ELSE << >>
    IN  CASE kind = "SQLiteDB" ->
                 IF op \in {"find", "find_one"}
                 THEN IF Len(params) > 0 THEN <<"WHERE">> \o cond \o limit ELSE << >>
                 ELSE <<"WHERE">> \o cond
          [] kind = "SqliteDB" ->
                 IF Len(params) > 0 THEN <<"WHERE">> \o cond ELSE << >>
          [] kind = "ORM" ->
                 IF op \in {"update", "remove"} THEN <<"WHERE">> \o cond
                 ELSE <<"WHERE">> \o (IF Len(params) > 0 THEN cond ELSE <<"1", "=", "1">>)
                          \o limit
          [] kind = "PostgresqlDB" ->
                 IF op = "find"
                 THEN IF Len(params) > 0 THEN <<"WHERE">> \o cond ELSE << >>
                 ELSE <<"WHERE">> \o cond \o limit

(***************************************************************************)
(* The driver: cursor.execute(statement, parameters).                      *)
(***************************************************************************)
\* column = placeholder, the placeholder being ?, %s, :column or :where_column
IsComparison(term) ==
    /\ Len(term) >= 3
    /\ term[1] \in UserColumns
    /\ term[2] = "="
    /\ SubSeq(term, 3, Len(term)) \in
           {<<"?">>, <<"%s">>, <<":", term[1]>>, <<":", "where_", term[1]>>}

WithoutLimit(clause) ==
    IF Len(clause) >= 2 /\ SubSeq(clause, Len(clause) - 1, Len(clause)) = <<"LIMIT", "1">>
    THEN SubSeq(clause, 1, Len(clause) - 2)
    ELSE clause

\* the comparisons the parser reads after WHERE
ClauseTerms(clause) == Split(Tail(WithoutLimit(clause)), <<"AND">>)

\* the statement parses: no WHERE, WHERE 1=1, or comparisons joined by AND
ClauseParses(clause) ==
    \/ clause = << >>
    \/ WithoutLimit(clause) = <<"WHERE", "1", "=", "1">>
    \/ LET terms == ClauseTerms(clause)
       IN  \A n \in 1..Len(terms) : IsComparison(terms[n])

\* the columns compared, in the order of the placeholders
ClauseColumns(clause) ==
    IF clause = << >> \/ WithoutLimit(clause) = <<"WHERE", "1", "=", "1">>
    THEN << >>
    ELSE LET terms == ClauseTerms(clause)
         IN  [n \in 1..Len(terms) |-> terms[n][1]]

\* column = value on a stored row
Holds(row, column, bound) ==
    IF column = "name" THEN bound.t = "str" /\ bound.v = row.name
    ELSE ColumnEquals(row[column], bound)

\* the row satisfies every comparison, columns being those of the clause
Selected(row, columns, binds) ==
    \A n \in 1..Len(columns) : Holds(row, columns[n], binds[n])

\* the exception execute raises: the fault of the connection, a statement
\* that does not parse, or none
DriverFault == "OperationalError: unable to open database"

DriverError(clause, fault) ==
    IF fault THEN DriverFault
    ELSE IF ~ClauseParses(clause) THEN "OperationalError: syntax error"
    ELSE "none"

\* SUM(age) over rows: NULL (None) over no row
RECURSIVE SumAges(_)
SumAges(rows) == IF Len(rows) = 0 THEN 0 ELSE Head(rows).age + SumAges(Tail(rows))

ApplyPatch(row, patch) ==
    [row EXCEPT !.age = IF HasKey(patch, <<"age">>) THEN Lookup(patch, <<"age">>).v ELSE @,
                !.name = IF HasKey(patch, <<"name">>) THEN Lookup(patch, <<"name">>).v ELSE @]

(***************************************************************************)
(* The adapters' operations.                                               *)
(***************************************************************************)
Out(value) == [ret |-> value, raised |-> "none"]
Fail(e) == [ret |-> NoneV, raised |-> e]

NoCall == [op |-> "none", filter |-> << >>, patch |-> << >>, where |-> << >>,
           binds |-> << >>, executes |-> 0, driver |-> "none",
           ret |-> NoneV, raised |-> "none", before |-> << >>]

\* an INSERT and the statement given to execute have no WHERE
StatementClause(op, params) ==
    IF op \in {"insert", "execute"} THEN << >> ELSE WhereClause(adapter, op, params)

\* the record of a call: what it was given, the statement and parameters it
\* handed to the driver, what the driver raised, and what the caller got
Called(op, params, patch, fault, out) ==
    [op |-> op, filter |-> params, patch |-> patch,
     where |-> StatementClause(op, params),
     binds |-> Binds(patch) \o Binds(params),
     executes |-> 1,
     driver |-> DriverError(StatementClause(op, params), fault),
     ret |-> out.ret, raised |-> out.raised, before |-> users]

\* what each adapter does with an exception of the driver: SQLiteDB and ORM
\* have no handler, SqliteDB returns a dict, PostgresqlDB a value by operation
OnError(kind, op, e) ==
    CASE kind \in {"SQLiteDB", "ORM"} -> Fail(e)
      [] kind = "SqliteDB" -> Out(ErrorDict(e))
      [] kind = "PostgresqlDB" ->
             Out(CASE op = "insert" -> IntV(0)
                   [] op \in {"find", "execute"} -> RowsV(<< >>)
                   [] op = "find_one" -> DictV(<< >>)
                   [] op \in {"update", "remove"} -> BoolV(FALSE)
                   [] OTHER -> NoneV)

\* the rows a statement with this filter selects
Matching(op, params) ==
    LET columns == ClauseColumns(WhereClause(adapter, op, params))
        binds == Binds(params)
    IN  SelectSeq(users, LAMBDA row : Selected(row, columns, binds))

\* insert(table, data)
AdapterInsert ==
    /\ serial <= MaxUsers
    /\ \E n \in 1..Len(Names), a \in Ages, fault \in BOOLEAN :
          LET data == <<Item(<<"name">>, StrV(Names[n])), Item(<<"age">>, IntV(a))>>
              e == DriverError(<< >>, fault)
              id == IF adapter \in {"SQLiteDB", "ORM"} THEN IntV(serial)
                    ELSE StrV(IntStr(serial))
          IN  IF e # "none"
              THEN /\ last_call' = Called("insert", << >>, data, fault,
                                     OnError(adapter, "insert", e))
                   /\ UNCHANGED <<users, serial, lastrowid>>
              ELSE /\ last_call' = Called("insert", << >>, data, fault, Out(id))
                   /\ users' = Append(users, [id |-> serial, name |-> Names[n], age |-> a])
                   /\ serial' = serial + 1
                   /\ lastrowid' = serial
    /\ UNCHANGED <<adapter, restOfAdapter>>

\* find(table, params)
AdapterFind ==
    /\ \E f \in 1..Len(UserFilters), fault \in BOOLEAN :
          LET params == UserFilters[f]
              e == DriverError(WhereClause(adapter, "find", params), fault)
          IN  last_call' = Called("find", params, << >>, fault,
                             IF e # "none" THEN OnError(adapter, "find", e)
                             ELSE Out(RowsV(Matching("find", params))))
    /\ UNCHANGED <<adapter, users, serial, lastrowid, restOfAdapter>>

\* find_one(table, params): the first row, or None; SqliteDB takes resp[0]
\* inside its try and returns the IndexError as a dict
AdapterFindOne ==
    /\ \E f \in 1..Len(UserFilters), fault \in BOOLEAN :
          LET params == UserFilters[f]
              e == DriverError(WhereClause(adapter, "find_one", params), fault)
              rows == Matching("find_one", params)
          IN  last_call' = Called("find_one", params, << >>, fault,
                             IF e # "none" THEN OnError(adapter, "find_one", e)
                             ELSE IF Len(rows) > 0 THEN Out(RowV(Head(rows)))
                             ELSE IF adapter = "SqliteDB"
                                  THEN Out(ErrorDict("list index out of range"))
                                  ELSE Out(NoneV))
    /\ UNCHANGED <<adapter, users, serial, lastrowid, restOfAdapter>>

\* update(table, params, data): SQLiteDB returns cursor.rowcount, SqliteDB
\* cursor.lastrowid, ORM None and PostgresqlDB True
AdapterUpdate ==
    /\ \E f \in 1..Len(UserFilters), p \in 1..Len(UserPatches), fault \in BOOLEAN :
          LET params == UserFilters[f]
              patch == UserPatches[p]
              clause == WhereClause(adapter, "update", params)
              e == DriverError(clause, fault)
              columns == ClauseColumns(clause)
              hit(row) == Selected(row, columns, Binds(params))
              done == CASE adapter = "SQLiteDB" -> IntV(Len(Matching("update", params)))
                        [] adapter = "SqliteDB" -> IntV(lastrowid)
                        [] adapter = "ORM" -> NoneV
                        [] adapter = "PostgresqlDB" -> BoolV(TRUE)
          IN  IF e # "none"
              THEN /\ last_call' = Called("update", params, patch, fault,
                                     OnError(adapter, "update", e))
                   /\ UNCHANGED users
              ELSE /\ last_call' = Called("update", params, patch, fault, Out(done))
                   /\ users' = [n \in 1..Len(users) |->
                                   IF hit(users[n]) THEN ApplyPatch(users[n], patch)
                                   ELSE users[n]]
    /\ UNCHANGED <<adapter, serial, lastrowid, restOfAdapter>>

\* remove(table, params): SQLiteDB returns cursor.rowcount, SqliteDB
\* str(cursor.lastrowid), ORM None and PostgresqlDB True
AdapterRemove ==
    /\ \E f \in 1..Len(UserFilters), fault \in BOOLEAN :
          LET params == UserFilters[f]
              clause == WhereClause(adapter, "remove", params)
              e == DriverError(clause, fault)
              columns == ClauseColumns(clause)
              hit(row) == Selected(row, columns, Binds(params))
              done == CASE adapter = "SQLiteDB" -> IntV(Len(Matching("remove", params)))
                        [] adapter = "SqliteDB" -> StrV(IntStr(lastrowid))
                        [] adapter = "ORM" -> NoneV
                        [] adapter = "PostgresqlDB" -> BoolV(TRUE)
          IN  IF e # "none"
              THEN /\ last_call' = Called("remove", params, << >>, fault,
                                     OnError(adapter, "remove", e))
                   /\ UNCHANGED users
              ELSE /\ last_call' = Called("remove", params, << >>, fault, Out(done))
                   /\ users' = SelectSeq(users, LAMBDA row : ~hit(row))
    /\ UNCHANGED <<adapter, serial, lastrowid, restOfAdapter>>

\* count(table, params): SqliteDB returns the rowcount of a SELECT, which is
\* -1; ORM results[0]['count']; PostgresqlDB result[0]
AdapterCount ==
    /\ adapter \in Aggregating
    /\ \E f \in 1..Len(UserFilters), fault \in BOOLEAN :
          LET params == UserFilters[f]
              e == DriverError(WhereClause(adapter, "count", params), fault)
          IN  last_call' = Called("count", params, << >>, fault,
                             IF e # "none" THEN OnError(adapter, "count", e)
                             ELSE IF adapter = "SqliteDB" THEN Out(IntV(-1))
                             ELSE Out(IntV(Len(Matching("count", params)))))
    /\ UNCHANGED <<adapter, users, serial, lastrowid, restOfAdapter>>

\* sum(table, 'age', params): SqliteDB indexes a tuple row by 'sum' inside
\* its try; ORM and PostgresqlDB return the SUM, which is NULL over no row
AdapterSum ==
    /\ adapter \in Aggregating
    /\ \E f \in 1..Len(UserFilters), fault \in BOOLEAN :
          LET params == UserFilters[f]
              e == DriverError(WhereClause(adapter, "sum", params), fault)
              rows == Matching("sum", params)
          IN  last_call' = Called("sum", params, << >>, fault,
                             IF e # "none" THEN OnError(adapter, "sum", e)
                             ELSE IF adapter = "SqliteDB"
                                  THEN Out(ErrorDict("tuple indices must be integers"))
                             ELSE IF Len(rows) = 0 THEN Out(NoneV)
                             ELSE Out(IntV(SumAges(rows))))
    /\ UNCHANGED <<adapter, users, serial, lastrowid, restOfAdapter>>

\* execute('SELECT * FROM users') (SqliteDB.query)
AdapterExecute ==
    /\ \E fault \in BOOLEAN :
          LET e == DriverError(<< >>, fault)
          IN  last_call' = Called("execute", << >>, << >>, fault,
                             IF e # "none" THEN OnError(adapter, "execute", e)
                             ELSE Out(RowsV(users)))
    /\ UNCHANGED <<adapter, users, serial, lastrowid, restOfAdapter>>

(***************************************************************************)
(* The adapters: what the claims speak of.                                 *)
(***************************************************************************)
\* find or find_one has been called with a filter of equality terms
EqualityFind == last_call.op \in {"find", "find_one"} /\ Len(last_call.filter) >= 1

\* the clause is WHERE and exactly one '<key> = <placeholder>' per key of the
\* filter, in the order of the keys, joined by AND
OneComparisonPerKey(clause, filter) ==
    /\ Len(clause) > 0 /\ Head(clause) = "WHERE"
    /\ LET terms == ClauseTerms(clause)
       IN  /\ Len(terms) = Len(filter)
           /\ \A n \in 1..Len(filter) :
                 IsComparison(terms[n]) /\ <<terms[n][1]>> = filter[n].k

\* C11: for every filter with n >= 1 equality-only terms, each relational
\* adapter builds a WHERE clause of exactly n '<key> = <placeholder>'
\* comparisons joined by AND, binds exactly n parameters in the same key
\* order, and leaves no operator token in the clause.
C11_EqualityFilterGivesConjunction ==
    EqualityFind =>
        /\ OneComparisonPerKey(last_call.where, last_call.filter)
        /\ last_call.binds = [n \in 1..Len(last_call.filter) |-> last_call.filter[n].v]
        /\ \A n \in 1..Len(last_call.where) : last_call.where[n] \notin DollarWords

\* the row satisfies every term of the filter
FilterHolds(row, filter) ==
    \A n \in 1..Len(filter) : Holds(row, filter[n].k[1], filter[n].v)

\* the rows of the table the filter of the last call selects
Filtered(rows) == SelectSeq(rows, LAMBDA row : FilterHolds(row, last_call.filter))

\* insert, or update or remove with a filter, on a working connection
TableCall ==
    /\ last_call.driver # DriverFault
    /\ \/ last_call.op = "insert"
       \/ last_call.op \in {"update", "remove"} /\ Len(last_call.filter) >= 1

\* find_one(table, {'id': value}) returns the row
IsIdOf(value, row) == value.t \in {"int", "str"} /\ ColumnEquals(row.id, value)

\* C15: the relational adapter behaves as a table of records: insert returns
\* an id under which a record with the inserted field values is stored;
\* update returns the number of records matching the filter and changes only
\* the patched fields of exactly those records; remove returns the number of
\* records removed, no record matching the filter is left and the others
\* are unchanged.
C15_AdapterBehavesAsTable ==
    TableCall =>
        /\ last_call.raised = "none"
        /\ last_call.op = "insert" =>
               \E n \in 1..Len(users) :
                   /\ IsIdOf(last_call.ret, users[n])
                   /\ users[n] = ApplyPatch(users[n], last_call.patch)
        /\ last_call.op = "update" =>
               /\ last_call.ret = IntV(Len(Filtered(last_call.before)))
               /\ users = [n \in 1..Len(last_call.before) |->
                              IF FilterHolds(last_call.before[n], last_call.filter)
                              THEN ApplyPatch(last_call.before[n], last_call.patch)
                              ELSE last_call.before[n]]
        /\ last_call.op = "remove" =>
               /\ last_call.ret = IntV(Len(Filtered(last_call.before)))
               /\ users = SelectSeq(last_call.before,
                                    LAMBDA row : ~FilterHolds(row, last_call.filter))

\* count or sum on a working connection with a filter no stored row matches
NothingToAggregate ==
    /\ last_call.op \in {"count", "sum"}
    /\ last_call.driver # DriverFault
    /\ Len(Filtered(users)) = 0

\* C17: for every adapter, count and sum return the number 0 when no stored
\* row matches the filter (an empty table and an empty filter included),
\* never None and never an error.
C17_AggregateOfNothingIsZero ==
    NothingToAggregate => last_call.raised = "none" /\ last_call.ret = IntV(0)

\* the driver raised during the last call
DriverRaised == last_call.op # "none" /\ last_call.driver # "none"

\* C18: when the native driver raises during an adapter operation, the
\* failure reaches the caller as a raised error, never as a normal return
\* value, and the driver call is attempted exactly once.
C18_DriverFailureIsRaised ==
    DriverRaised => last_call.raised # "none" /\ last_call.executes = 1

(***************************************************************************)
(* Saving an instance: what the claims speak of.                           *)
(***************************************************************************)
\* the stored records whose id is the value of the instance's id attribute
RecordsOf(obj) == SelectSeq(table, LAMBDA row : ColumnEquals(row.id, obj.id))

\* Model.get(obj.id)
GetById(obj) == ModelsOfRows(SQLiteFindOne(IdParams(obj.id).d).rows)

\* the table holds exactly one record for the instance and get(id) returns
\* it with the instance's field values
StoredOnce ==
    /\ Len(RecordsOf(inst)) = 1
    /\ Len(GetById(inst)) = 1
    /\ GetById(inst)[1].age = inst.age

\* C12: save inserts a new record exactly when no stored record has the
\* entity's current identifier and updates the existing record otherwise;
\* after an insert the entity has the identifier the store returned, so
\* after each save the table holds exactly one record for the entity and
\* get(entity.id) returns it with the entity's latest field values.
C12_SaveKeepsOneRecord ==
    [][(ModelSave /\ last'.outcome = "ok") =>
          /\ ("insert" \in SeqRange(last'.effects)) <=> (Len(RecordsOf(inst)) = 0)
          /\ ("update" \in SeqRange(last'.effects)) <=> (Len(RecordsOf(inst)) > 0)
          /\ StoredOnce']_vars

\* C13: if a field fails validation during save, a ValidationError is
\* raised to the caller before any adapter operation is issued; the stored
\* data is unchanged and no after-save hook runs.
C13_InvalidFieldRaisesBeforeIO ==
    [][(ModelSave /\ ~IntegerFieldValidate(AgeField, inst.age).ok) =>
          /\ last'.outcome = "ValidationError"
          /\ table' = table
          /\ SeqRange(last'.effects) \cap {"find_one", "insert", "update", "after_save"} = {}]_vars

\* the order of the statements of a save that inserts or that updates
SaveOrder(write) ==
    SaveToStamp \o <<"find_one", write>>
        \o (IF write = "insert" THEN <<"id = result">> ELSE << >>) \o <<"after_save">>

IsPrefix(s, t) == Len(s) <= Len(t) /\ SubSeq(t, 1, Len(s)) = s

\* C21: in every execution of save() the steps occur in this order with
\* none skipped: the before-save hooks, validation, computed fields, the
\* stamping of updated_at, the lookup by the current identifier, exactly one
\* of insert or update, adoption of the returned identifier, the after-save
\* hooks; after-save hooks never run unless the insert or update completed.
C21_SaveStepsInOrder ==
    [][ModelSave =>
          /\ IsPrefix(steps', SaveOrder("insert")) \/ IsPrefix(steps', SaveOrder("update"))
          /\ last'.outcome = "ok" => steps' \in {SaveOrder("insert"), SaveOrder("update")}
          /\ "after_save" \in SeqRange(steps') =>
                /\ last'.outcome = "ok"
                /\ SeqRange(steps') \cap {"insert", "update"} # {}
          /\ "insert" \in SeqRange(steps') =>
                \E n \in 1..Len(table') :
                    /\ \A k \in 1..Len(table) : table[k].id # table'[n].id
                    /\ inst'.id = StrV(IntStr(table'[n].id))]_vars

\* the instance has been constructed by the caller and never saved
NeverSaved == inst.id = StrV(OidText) /\ SaveCount(inst) = 0

\* C14: a newly constructed, never-saved entity has no created_at and no
\* updated_at (both None); the first save sets both to timestamps; every
\* later successful save leaves created_at unchanged and changes updated_at.
C14_TimestampsSetBySave ==
    /\ [](NeverSaved => (inst.created_at = NoneV /\ inst.updated_at = NoneV))
    /\ [][(ModelSave /\ last'.outcome = "ok") =>
             /\ inst'.created_at.t = "datetime" /\ inst'.updated_at.t = "datetime"
             /\ SaveCount(inst) > 0 =>
                    /\ inst'.created_at = inst.created_at
                    /\ inst'.updated_at # inst.updated_at]_vars

(***************************************************************************)
(* Relationship fields: a class Owner(Model) with                          *)
(* posts = OneToMany('Post') or posts = ManyToMany('Post'), and the stored *)
(* posts 1..MaxPosts.  An entity is written as its id.                     *)
(***************************************************************************)
ToManyKinds == {"OneToMany", "ManyToMany"}
PostIds == 1..MaxPosts

\* the ordered lists of related entities a caller assigns
RECURSIVE ListsUpTo(_)
ListsUpTo(n) ==
    IF n = 0 THEN {<< >>}
    ELSE ListsUpTo(n - 1) \cup {Append(l, p) : l \in {k \in ListsUpTo(n - 1) : Len(k) = n - 1}, p \in PostIds}
RelatedLists == ListsUpTo(MaxList)

\* RelationshipField.__init__: lazy, and nothing cached
Lazy == TRUE
NothingCached == [t |-> "None", v |-> << >>]

\* Model.__init__ of a class with a *-to-many field: setattr(self, '_posts_ids', [])
\* puts an empty list in self._dynamic_fields
NewOwner == [posts |-> [t |-> "absent", v |-> << >>], _posts_ids |-> << >>]
NoRow == [saved |-> FALSE, posts_ids |-> << >>, of |-> << >>]
NoRead == [who |-> "none", value |-> << >>, of |-> << >>]

\* Post.get(id)
PostGet(id) == IF id \in PostIds THEN id ELSE None

\* the getter the metaclass makes: what field._cached_value is after a read
\* of obj.posts, which is also what the read returns
Getter(obj) ==
    IF Lazy /\ cached_value.t = "None"
    THEN [t |-> "list",
          v |-> LET ids == SelectSeq(obj._posts_ids, LAMBDA id : id # 0)
                IN  [n \in 1..Len(ids) |-> PostGet(ids[n])]]
    ELSE cached_value

\* Field.validate of the list the getter returns: OneToMany and ManyToMany
\* have field_type list and no validator, so the list is returned as it is
RelationshipValidate(kind, value) ==
    IF kind \in ToManyKinds /\ value.t = "list" THEN value ELSE [t |-> "str", v |-> value.v]

\* owner.posts = L: Model.__setattr__ finds no 'posts' in the annotations of
\* the class and stores L in self._dynamic_fields; the setter the metaclass
\* made is not called
AssignPosts ==
    /\ \E L \in RelatedLists :
          /\ owner' = [owner EXCEPT !.posts = [t |-> "list", v |-> L]]
          /\ assigned' = L
    /\ UNCHANGED <<relation, cached_value, owner_row, reloaded, read>>
    /\ UNCHANGED restOfRel

\* owner.save(): validate_fields reads owner.posts through the getter and
\* sets the validated value; the record gets posts_ids = self._posts_ids
SaveOwner ==
    /\ cached_value' = Getter(owner)
    /\ owner' = [owner EXCEPT !.posts = RelationshipValidate(relation, Getter(owner))]
    /\ owner_row' = [saved |-> TRUE, posts_ids |-> owner._posts_ids, of |-> assigned]
    /\ UNCHANGED <<relation, assigned, reloaded, read>>
    /\ UNCHANGED restOfRel

\* Owner.get(id): Model.__init__ of cls(**result) sets _posts_ids to [] and
\* keeps the stored posts_ids under its own name
ReloadOwner ==
    /\ owner_row.saved
    /\ reloaded' = [got |-> TRUE, _posts_ids |-> << >>, posts_ids |-> owner_row.posts_ids,
                     of |-> owner_row.of]
    /\ UNCHANGED <<relation, owner, assigned, cached_value, owner_row, read>>
    /\ UNCHANGED restOfRel

\* reading .posts of the owner
ReadOwnerPosts ==
    /\ cached_value' = Getter(owner)
    /\ read' = [who |-> "owner", value |-> Getter(owner).v, of |-> assigned]
    /\ UNCHANGED <<relation, owner, assigned, owner_row, reloaded>>
    /\ UNCHANGED restOfRel

\* reading .posts of the reloaded owner
ReadReloadedPosts ==
    /\ reloaded.got
    /\ cached_value' = Getter(reloaded)
    /\ read' = [who |-> "reloaded", value |-> Getter(reloaded).v, of |-> reloaded.of]
    /\ UNCHANGED <<relation, owner, assigned, owner_row, reloaded>>
    /\ UNCHANGED restOfRel

\* C16: for every ordered list L of related entities, assigning L to a
\* *-to-many relationship of an owner and saving the owner stores exactly
\* the ids of L in the assigned order, and reloading the owner by id and
\* reading the relationship returns the same entities in the same order.
C16_RelationshipRoundTrip ==
    /\ owner_row.saved => owner_row.posts_ids = owner_row.of
    /\ read.who = "reloaded" => read.value = read.of

RelInit ==
    /\ relation \in ToManyKinds
    /\ owner = NewOwner
    /\ assigned = << >>
    /\ cached_value = NothingCached
    /\ owner_row = NoRow
    /\ reloaded = [got |-> FALSE, _posts_ids |-> << >>, posts_ids |-> << >>, of |-> << >>]
    /\ read = NoRead

(***************************************************************************)
(* DBMS.initialize (odbms/dbms.py) and the legacy adapter classes MongoDB, *)
(* MysqlDB and SqliteDB it installs; a class is written as its dbms.       *)
(***************************************************************************)
\* the kinds the command line offers
SupportedKinds == {"mongodb", "mysql", "sqlite", "postgresql"}
\* the classes initialize knows, each with db = None at first
LegacyKinds == {"mongodb", "mysql", "sqlite"}
DatabaseNames == {"d1", "d2"}
NoHandles == [k \in LegacyKinds |-> "none"]
NoInit == [kind |-> "none", database |-> "none", ended |-> "none"]

\* how the class's initialize ends when the driver cannot connect: MongoClient
\* connects lazily and returns, MysqlDB.connect prints and calls exit(1),
\* sqlite3.connect raises
ConnectFailure(kind) ==
    CASE kind = "mongodb" -> "returned"
      [] kind = "mysql" -> "SystemExit"
      [] kind = "sqlite" -> "OperationalError"

\* DBMS.initialize(dbms, host, port, username, password, database); the
\* driver connects or not
DbmsInitialize ==
    \E kind \in SupportedKinds, database \in DatabaseNames, connects \in BOOLEAN :
        LET ended == IF kind \in LegacyKinds /\ ~connects THEN ConnectFailure(kind)
                     ELSE "returned"
        IN  /\ last_init' = [kind |-> kind, database |-> database, ended |-> ended]
            /\ IF kind \in LegacyKinds /\ ended = "returned"
               THEN /\ handles' = [handles EXCEPT ![kind] = database]
                    /\ Database' = kind
               ELSE UNCHANGED <<handles, Database>>
            /\ UNCHANGED <<hooks, table, next_id, inst, last, steps>>
            /\ UNCHANGED <<poolVars, normVars, adapterVars, relVars, fieldVars, moreVars>>

\* C19: after DBMS.initialize(kind, settings) returns for a supported kind
\* (mongodb, mysql, sqlite, postgresql), DBMS.Database refers to exactly one
\* connected adapter whose dbms equals kind; no call returns leaving
\* DBMS.Database None or pointing at an adapter of a different kind.
C19_InitializeInstallsKind ==
    last_init.ended = "returned" =>
        /\ Database = last_init.kind
        /\ handles[Database] # "none"

DbmsInit == handles = NoHandles /\ last_init = NoInit

(***************************************************************************)
(* Field.validate and StringField.validate (odbms/fields.py), for a field  *)
(* of type str: Field(field_type=str), StringField and its subclasses.     *)
(* A str is the sequence of its characters.                                *)
(***************************************************************************)
LowerCase == {"a", "b", "c", "h", "o", "p", "t"}
UpperCase == {"A"}
DigitChars == SeqRange(Digits)
IsAlnum(c) == c \in LowerCase \cup UpperCase \cup DigitChars

FieldClasses == {"Field", "StringField", "EmailField", "URLField", "PhoneField",
                 "PasswordField", "IPAddressField"}

\* the validators=[...] a caller declares: callables over str
UserValidators == << << >>, <<"strip_dashes">>, <<"reject_short">>,
                     <<"strip_dashes", "reject_short">>,
                     <<"reject_short", "strip_dashes">> >>

\* the validator the __init__ of the class appends to self.validators
ClassValidators(cls) ==
    CASE cls = "EmailField" -> <<"validate_email">>
      [] cls = "URLField" -> <<"validate_url">>
      [] cls = "PhoneField" -> <<"validate_phone">>
      [] cls = "PasswordField" -> <<"validate_password">>
      [] cls = "IPAddressField" -> <<"validate_ip">>
      [] OTHER -> << >>

\* cls(validators=user): min_length is 8 for a PasswordField and None (0)
\* for the others, max_length is None (0)
NewField(cls, user) ==
    [cls |-> cls, validators |-> user \o ClassValidators(cls),
     min_length |-> IF cls = "PasswordField" THEN 8 ELSE 0, max_length |-> 0]

\* the non-null values handed to validate
FieldInputs == <<
    StrV(<<"a", "@", "b", ".", "c", "o">>),
    StrV(<<"a", "b">>),
    StrV(<<"a", "-", "b">>),
    StrV(<<"h", "t", "t", "p", ":", "/", "/", "a", ".", "b">>),
    StrV(<<"1", "2", "3", "4", "5", "6", "7", "8", "9">>),
    StrV(<<"1", "2", "-", "3", "4", "5", "6", "7", "8", "9">>),
    StrV(<<"A", "a", "1", "!", "a", "a", "a", "a">>),
    StrV(<<"1", ".", "2", ".", "3", ".", "4">>),
    IntV(5),
    IntV(123456789) >>

\* re.match of ^[a-zA-Z0-9._%+-]+@[a-zA-Z0-9.-]+\.[a-zA-Z]{2,}$
MatchesEmail(s) ==
    \E at \in 2..Len(s) : \E dot \in (at + 2)..(Len(s) - 2) :
        /\ s[at] = "@" /\ s[dot] = "."
        /\ \A n \in 1..(at - 1) : IsAlnum(s[n]) \/ s[n] \in {".", "_", "%", "+", "-"}
        /\ \A n \in (at + 1)..(dot - 1) : IsAlnum(s[n]) \/ s[n] \in {".", "-"}
        /\ \A n \in (dot + 1)..Len(s) : s[n] \in LowerCase \cup UpperCase

\* EmailField.validate_email
ValidateEmail(s) ==
    IF ~MatchesEmail(s) THEN Raised("ValueError")
    ELSE LET parts == Split(s, <<"@">>)
             domain == parts[Len(parts)]
         IN  IF Len(s) > 254 \/ Len(s) - Len(domain) - 1 > 64
                \/ Head(domain) = "-" \/ domain[Len(domain)] = "-"
                \/ Len(Split(s, <<".", ".">>)) > 1
             THEN Raised("ValueError") ELSE Returned(s)

\* URLField.validate_url with schemes http and https: urlparse gives a scheme
\* before ':' and a netloc after '//'
ValidateUrl(s) ==
    LET parts == Split(s, <<":", "/", "/">>)
    IN  IF Len(parts) > 1
           /\ parts[1] \in {<<"h", "t", "t", "p">>, <<"h", "t", "t", "p", "s">>}
           /\ Len(parts[2]) > 0 /\ Head(parts[2]) # "/"
        THEN Returned(s) ELSE Raised("ValueError")

\* PhoneField.validate_phone: the digits of the value, matched against
\* ^\+?1?\d{9,15}$
ValidatePhone(s) ==
    LET digits == SelectSeq(s, LAMBDA c : c \in DigitChars)
    IN  IF (Len(digits) >= 9 /\ Len(digits) <= 15) \/ (Len(digits) = 16 /\ Head(digits) = "1")
        THEN Returned(digits) ELSE Raised("ValueError")

\* PasswordField.validate_password with the four requirements
ValidatePassword(s) ==
    IF /\ \E n \in 1..Len(s) : s[n] \in UpperCase
       /\ \E n \in 1..Len(s) : s[n] \in LowerCase
       /\ \E n \in 1..Len(s) : s[n] \in DigitChars
       /\ \E n \in 1..Len(s) : ~IsAlnum(s[n])
    THEN Returned(s) ELSE Raised("ValueError")

\* IPAddressField.validate_ip with version None, for texts without ':' (no
\* IPv6 address): four decimal octets, each one digit here
ValidateIp(s) ==
    LET parts == Split(s, <<".">>)
    IN  IF Len(parts) = 4 /\ \A n \in 1..4 : Len(parts[n]) = 1 /\ parts[n][1] \in DigitChars
        THEN Returned(s) ELSE Raised("ValueError")

\* calling one validator with a str
CallValidator(name, s) ==
    CASE name = "strip_dashes" -> Returned(SelectSeq(s, LAMBDA c : c # "-"))
      [] name = "reject_short" -> IF Len(s) < 3 THEN Raised("ValueError") ELSE Returned(s)
      [] name = "validate_email" -> ValidateEmail(s)
      [] name = "validate_url" -> ValidateUrl(s)
      [] name = "validate_phone" -> ValidatePhone(s)
      [] name = "validate_password" -> ValidatePassword(s)
      [] name = "validate_ip" -> ValidateIp(s)

\* the outcome of a validate: the value or the error, and the calls of
\* validators made, each with its argument
Outcome(ok, value, applied) == [ran |-> TRUE, ok |-> ok, value |-> value, applied |-> applied]
NotValidated == [ran |-> FALSE, ok |-> FALSE, value |-> << >>, applied |-> << >>]

\* for validator in self.validators: value = validator(value)
RECURSIVE RunValidators(_, _, _)
RunValidators(names, s, applied) ==
    IF Len(names) = 0 THEN Outcome(TRUE, s, applied)
    ELSE LET r == CallValidator(Head(names), s)
             now == Append(applied, [name |-> Head(names), arg |-> s])
         IN  IF r.ok THEN RunValidators(Tail(names), r.d, now)
             ELSE Outcome(FALSE, << >>, now)

\* self.field_type(value) with field_type str
CoerceStr(x) == PyStr(x)

\* Field.validate of a value that is not None
FieldValidate(f, x) == RunValidators(f.validators, CoerceStr(x), << >>)

\* the two length checks of StringField.validate
LengthChecked(f, r) ==
    IF (f.min_length # 0 /\ Len(r.value) < f.min_length)
       \/ (f.max_length # 0 /\ Len(r.value) > f.max_length)
    THEN Outcome(FALSE, << >>, r.applied) ELSE r

\* StringField.validate of a value that is not None: a str is checked for
\* its length and returned, any other value goes through Field.validate
StringFieldValidate(f, x) ==
    IF x.t = "str" THEN LengthChecked(f, Outcome(TRUE, x.v, << >>))
    ELSE LET r == FieldValidate(f, x)
         IN  IF r.ok THEN LengthChecked(f, r) ELSE r

\* field.validate(given)
ValidateField ==
    /\ ~validated.ran
    /\ validated' = IF field.cls = "Field" THEN FieldValidate(field, given)
                     ELSE StringFieldValidate(field, given)
    /\ UNCHANGED <<field, given>>
    /\ UNCHANGED <<poolVars, modelVars, normVars, adapterVars, relVars, dbmsVars, moreVars>>

\* the call of a validator rejects its argument
Rejects(c) == ~CallValidator(c.name, c.arg).ok

\* C20: for every field class and every non-null input, validate first
\* coerces the value to the declared type and then applies every declared
\* validator exactly once in declaration order, each receiving the previous
\* validator's result; if any validator rejects the value, validate raises.
C20_ValidatorsRunInOrder ==
    validated.ran =>
        LET a == validated.applied
        IN  /\ Len(a) <= Len(field.validators)
            /\ \A n \in 1..Len(a) : a[n].name = field.validators[n]
            /\ Len(a) > 0 => a[1].arg = CoerceStr(given)
            /\ \A n \in 2..Len(a) : CallValidator(a[n - 1].name, a[n - 1].arg).d = a[n].arg
            /\ Len(a) < Len(field.validators) => (Len(a) > 0 /\ Rejects(a[Len(a)]))
            /\ (\E n \in 1..Len(a) : Rejects(a[n])) => ~validated.ok

FieldInit ==
    /\ \E cls \in FieldClasses, u \in 1..Len(UserValidators) :
          field = NewField(cls, UserValidators[u])
    /\ \E n \in 1..Len(FieldInputs) : given = FieldInputs[n]
    /\ validated = NotValidated

FieldIdle ==
    /\ field = NewField("Field", << >>) /\ given = FieldInputs[1]
    /\ validated = NotValidated

ModelInit ==
    /\ Database = "None"
    /\ hooks \in {{}, HookKinds}
    /\ table = << >>
    /\ next_id = 1
    /\ \E a \in InstAges : inst = NewModel(a)
    /\ last = NoOperation
    /\ steps = << >>

\* the parts of the state a specification leaves alone
PoolIdle == PoolInit /\ dbms_in_use = "sqlite"
ModelIdle == /\ Database = "None" /\ hooks = {} /\ table = << >> /\ next_id = 1
             /\ inst = NewModel(1) /\ last = NoOperation /\ steps = << >>
NormIdle == orig = << >> /\ native = NotRun /\ back = NotRun
AdapterIdle == /\ adapter = "SQLiteDB" /\ users = << >> /\ serial = 1
               /\ lastrowid = 0 /\ last_call = NoCall
RelIdle == RelInit /\ relation = "ManyToMany"

ModelNext ==
    \/ Initialize
    \/ NewInstance
    \/ ModelSave
    \/ ModelDelete
    \/ ModelGet
    \/ ModelFind
    \/ ModelFindOne
    \/ ModelAll
    \/ ModelUpdate
    \/ ModelRemove

EntityNext ==
    \/ Initialize
    \/ NewInstance
    \/ SetAge
    \/ KeepFetched
    \/ ModelSave
    \/ ModelDelete
    \/ ModelGet

\* the threads inside initialize_pool for key k, between the test of line 42
\* and the end of the loop of lines 50-53
InitialisersOf(k) ==
    {t \in Threads : th[t].pc \in {"init_alloc", "init_fill"} /\ ThKey(t) = k}

\* C23: the creation of a pool is exclusive: at most one thread at a time is
\* inside initialize_pool for a key, so one Queue is installed for the key
\* and filled by one thread up to its size, and a caller that holds a
\* connection finds room for it in the queue of its key
C23_PoolCreationExclusive ==
    \A k \in PoolKeys :
        /\ Cardinality(InitialisersOf(k)) <= 1
        /\ (pools[k] # None /\ ~closed_once) =>
               Len(Available(k)) + Cardinality(InUse(k)) <= pool_sizes[k]
        /\ \A t \in InUse(k) : Len(Available(k)) < queues[pools[k]].maxsize

\* C29: close_all leaves every key whose pool had connections usable: the
\* key is no longer in self.pools, so that the next call initialises it, or
\* its queue holds an open connection; and after close_all a get_connection
\* times out only while another caller holds a connection of the key
C29_KeyUsableAfterCloseAll ==
    [][\A t \in Threads :
          /\ CloseAll(t) =>
                \A k \in InitialisedKeys :
                    Available(k) # << >> =>
                        \/ pools'[k] = None
                        \/ \E c \in SeqRange(queues'[pools'[k]].items) : conns'[c] = "open"
          /\ (Timeout(t) /\ closed_once) =>
                \E u \in Threads \ {t} : th[u].pc = "holding" /\ ThKey(u) = ThKey(t)]_vars

\* C30: on a relational backend the translation of a content keeps a term
\* for every field of the content: each key of the content is the start of a
\* key of the translation, and each operator of an operator dict has a key
\* of its own, so no content with a field translates to the empty filter
C30_NoFilterTermDropped ==
    (Database = "sqlite" /\ native.ok) =>
        /\ \A n \in 1..Len(orig) :
               \E m \in 1..Len(native.d) : StartsWith(native.d[m].k, orig[n].k)
        /\ \A n \in 1..Len(orig) :
               OperatorDict(orig[n].v) =>
                   Cardinality({m \in 1..Len(native.d) :
                                   /\ StartsWith(native.d[m].k, orig[n].k)
                                   /\ native.d[m].k # orig[n].k}) = Len(orig[n].v.v)

AsyncNext ==
    \/ Initialize
    \/ NewInstance
    \/ SetAge
    \/ KeepFetched
    \/ ModelSave
    \/ ModelSaveAsync
    \/ ModelDelete
    \/ ModelDeleteAsync
    \/ ModelGet

NormNext ==
    \/ NormaliseParams
    \/ NormaliseDbresult

AdapterNext ==
    \/ AdapterInsert
    \/ AdapterFind
    \/ AdapterFindOne
    \/ AdapterUpdate
    \/ AdapterRemove
    \/ AdapterCount
    \/ AdapterSum
    \/ AdapterExecute

RelNext ==
    \/ AssignPosts
    \/ SaveOwner
    \/ ReloadOwner
    \/ ReadOwnerPosts
    \/ ReadReloadedPosts

\* ---------------------------------------------------------------------------
\* delete(cascade) and the lazy getter over two related classes.
\* class User has `address = OneToOne('Address', cascade=...)` and class
\* Address has `user = OneToOne('User', cascade=...)`. A stored record carries
\* the id its relationship points to (column _address_id or _user_id), and an
\* entity got by id carries that value in its _dynamic_fields.
MaxEntities == 2
\* the depth at which the interpreter raises RecursionError, scaled down
RecursionLimit == 5
EntityClasses == {"User", "Address"}
EntityIds == 1..MaxEntities
\* field.model of the relationship field declared on cls
Related(cls) == IF cls = "User" THEN "Address" ELSE "User"
NoDelete == [cls |-> "User", id |-> None, cascade |-> FALSE,
             before |-> [c \in EntityClasses |-> {}], ended |-> "never"]
NoRelRead == [cls |-> "User", id |-> None, value |-> None]

\* model_class.get(id): the entity with this id, None when no record has it
ClsGet(cls, id) == IF id \in present[cls] THEN id ELSE None

\* the property getter the metaclass makes for the field declared on cls,
\* called on the entity of that class with this id: what it returns, and
\* what it leaves in field._cached_value
RelationshipGetter(cls, id) ==
    IF cache[cls] = None
    THEN LET ref == graph[cls][id]
         IN  IF ref # None THEN ClsGet(Related(cls), ref) ELSE None
    ELSE cache[cls]

\* reading entity.address or entity.user on an entity got by id
ReadRelated ==
    \E cls \in EntityClasses : \E id \in present[cls] :
        /\ deleting.ended # "running"
        /\ rel_read' = [cls |-> cls, id |-> id, value |-> RelationshipGetter(cls, id)]
        /\ cache' = [cache EXCEPT ![cls] = RelationshipGetter(cls, id)]
        /\ UNCHANGED <<graph, cascades, present, frames, events, deleting>>
        /\ UNCHANGED restOfCascade

\* the property setter the metaclass makes, called on the entity of class cls
\* with this id and an entity of the related class: it stores the value's id on
\* the entity and the value in field._cached_value. The entity is then saved.
RelationshipSetter ==
    \E cls \in EntityClasses : \E id \in present[cls] :
        \E value \in present[Related(cls)] :
            /\ deleting.ended # "running"
            /\ graph' = [graph EXCEPT ![cls][id] = value]
            /\ cache' = [cache EXCEPT ![cls] = value]
            /\ UNCHANGED <<cascades, present, frames, events, deleting, rel_read>>
            /\ UNCHANGED restOfCascade

Frame(cls, id, cascade) == [cls |-> cls, id |-> id, cascade |-> cascade, pc |-> "cascade"]
Event(what, cls, id) == <<what, cls, id>>

\* Cls.get(id).delete(cascade): entry into delete, the before-delete hooks
CallDelete ==
    \E cls \in EntityClasses : \E id \in present[cls] : \E cascade \in BOOLEAN :
        /\ deleting.ended # "running"
        /\ deleting' = [cls |-> cls, id |-> id, cascade |-> cascade,
                        before |-> present, ended |-> "running"]
        /\ frames' = <<Frame(cls, id, cascade)>>
        /\ events' = <<Event("before_delete", cls, id)>>
        /\ UNCHANGED <<graph, cascades, present, cache, rel_read>>
        /\ UNCHANGED restOfCascade

\* the cascade part of the delete at the top of the stack: the loop over
\* _fields, getattr(self, name), and the call of related.delete(cascade=True)
DeleteCascade ==
    /\ frames # << >>
    /\ LET top == frames[Len(frames)]
           related == RelationshipGetter(top.cls, top.id)
           waiting == [frames EXCEPT ![Len(frames)].pc = "remove"]
       IN  /\ top.pc = "cascade"
           /\ IF top.cascade /\ cascades[top.cls]
              THEN /\ cache' = [cache EXCEPT ![top.cls] = related]
                   /\ IF related = None
                      THEN /\ frames' = waiting
                           /\ UNCHANGED <<events, deleting>>
                      ELSE IF Len(frames) = RecursionLimit
                      THEN /\ frames' = << >>
                           /\ deleting' = [deleting EXCEPT !.ended = "RecursionError"]
                           /\ UNCHANGED events
                      ELSE /\ frames' = Append(waiting, Frame(Related(top.cls), related, TRUE))
                           /\ events' = Append(events,
                                   Event("before_delete", Related(top.cls), related))
                           /\ UNCHANGED deleting
              ELSE /\ frames' = waiting
                   /\ UNCHANGED <<cache, events, deleting>>
    /\ UNCHANGED <<graph, cascades, present, rel_read>>
    /\ UNCHANGED restOfCascade

\* the rest of the delete at the top of the stack: Database.remove of the
\* entity's own record, the after-delete hooks, return
DeleteRemove ==
    /\ frames # << >>
    /\ LET top == frames[Len(frames)]
       IN  /\ top.pc = "remove"
           /\ present' = [present EXCEPT ![top.cls] = @ \ {top.id}]
           /\ events' = events \o <<Event("remove", top.cls, top.id),
                                    Event("after_delete", top.cls, top.id)>>
           /\ frames' = SubSeq(frames, 1, Len(frames) - 1)
           /\ deleting' = IF Len(frames) = 1
                          THEN [deleting EXCEPT !.ended = "returned"]
                          ELSE deleting
    /\ UNCHANGED <<graph, cascades, cache, rel_read>>
    /\ UNCHANGED restOfCascade

CascadeInit ==
    /\ graph \in [EntityClasses -> [EntityIds -> {None} \cup EntityIds]]
    /\ cascades \in [EntityClasses -> BOOLEAN]
    /\ present = [cls \in EntityClasses |-> EntityIds]
    /\ cache = [cls \in EntityClasses |-> None]
    /\ frames = << >> /\ events = << >>
    /\ deleting = NoDelete /\ rel_read = NoRelRead

CascadeIdle ==
    /\ graph = [cls \in EntityClasses |-> [id \in EntityIds |-> None]]
    /\ cascades = [cls \in EntityClasses |-> FALSE]
    /\ present = [cls \in EntityClasses |-> {}]
    /\ cache = [cls \in EntityClasses |-> None]
    /\ frames = << >> /\ events = << >>
    /\ deleting = NoDelete /\ rel_read = NoRelRead

\* what one more level of cascade adds to a set of entities: the related
\* entity of each member whose field is cascadable and whose stored id names
\* a record that existed when delete was called
CascadeInto(S) ==
    S \cup { <<Related(e[1]), graph[e[1]][e[2]]>> :
               e \in { x \in S : /\ cascades[x[1]]
                                 /\ graph[x[1]][x[2]] \in deleting.before[Related(x[1])] } }
RECURSIVE CascadeClosure(_, _)
CascadeClosure(S, n) == IF n = 0 THEN S ELSE CascadeClosure(CascadeInto(S), n - 1)
\* the records the delete the caller made has to remove
DueForRemoval ==
    IF deleting.cascade
    THEN CascadeClosure({<<deleting.cls, deleting.id>>}, 2 * MaxEntities)
    ELSE {<<deleting.cls, deleting.id>>}
RemovedAt(e) == { n \in 1..Len(events) : events[n] = Event("remove", e[1], e[2]) }

\* C22: a delete that returns ran the before-delete hooks first and the
\* after-delete hooks last, removed the record of every entity reachable
\* through cascadable fields before its own record, and removed no other
\* record (none but its own when cascade is False)
C22_CascadeDeletesRelatedFirst ==
    deleting.ended = "returned" =>
        LET root == <<deleting.cls, deleting.id>>
        IN  /\ events[1] = Event("before_delete", root[1], root[2])
            /\ events[Len(events)] = Event("after_delete", root[1], root[2])
            /\ \A cls \in EntityClasses :
                   present[cls] = deleting.before[cls]
                                    \ { e[2] : e \in { x \in DueForRemoval : x[1] = cls } }
            /\ \A e \in DueForRemoval \ {root} :
                   \E n \in RemovedAt(e) : \A m \in RemovedAt(root) : n < m

\* C26: a cascading delete never exhausts the stack, and when it returns it
\* has removed the record of each entity it had to remove exactly once
C26_CascadeTerminatesOncePerRecord ==
    /\ deleting.ended # "RecursionError"
    /\ deleting.ended = "returned" =>
           \A e \in DueForRemoval : Cardinality(RemovedAt(e)) = 1

\* C27: a read of a relationship on an entity returns the entity whose id is
\* stored on that entity, or None when it stores no id or the id names no record
C27_ReadReturnsOwnRelated ==
    [][ReadRelated =>
          /\ rel_read'.value # None => rel_read'.value = graph[rel_read'.cls][rel_read'.id]
          /\ rel_read'.value = None =>
                 graph[rel_read'.cls][rel_read'.id] \notin present[Related(rel_read'.cls)]]_vars

\* ---------------------------------------------------------------------------
\* The lifecycle hooks of model classes: class Model declares eight lists,
\* User and Post are model classes, Admin is a subclass of User.
MaxHooks == 2
ModelClasses == {"User", "Post", "Admin"}
HookLists == {"_before_save_hooks", "_after_save_hooks",
              "_before_delete_hooks", "_after_delete_hooks",
              "_before_save_hooks_async", "_after_save_hooks_async",
              "_before_delete_hooks_async", "_after_delete_hooks_async"}
HookOperations == {"save", "delete", "save_async", "delete_async"}
\* cls is sub, or a class derived from it
IsSubclass(sub, cls) == sub = cls \/ (sub = "Admin" /\ cls = "User")
NoHookRun == [cls |-> "none", op |-> "none", ran |-> << >>]

\* cls._before_save_hooks and the like: no model class assigns the attribute,
\* so for every class the lookup ends at the list class Model was given
HooksOf(cls, list) == hook_lists[list]

RECURSIVE HooksTotal(_)
HooksTotal(lists) ==
    IF lists = {} THEN 0
    ELSE LET l == CHOOSE x \in lists : TRUE
         IN  Len(hook_lists[l]) + HooksTotal(lists \ {l})

\* the decorators before_save ... after_delete_async applied to a function
\* by class cls: cls.<list>.append(func)
RegisterHook(cls, list) ==
    /\ HooksTotal(HookLists) < MaxHooks
    /\ hook_lists' = [hook_lists EXCEPT ![list] = Append(@, [by |-> cls, list |-> list])]
    /\ UNCHANGED hook_run
    /\ UNCHANGED restOfHooks

\* the lists an operation runs, in the order of its statements
ListsRun(op) ==
    IF op = "save" THEN <<"_before_save_hooks", "_after_save_hooks">>
    ELSE IF op = "delete" THEN <<"_before_delete_hooks", "_after_delete_hooks">>
    ELSE IF op = "save_async"
    THEN <<"_before_save_hooks_async", "_before_save_hooks",
           "_after_save_hooks_async", "_after_save_hooks">>
    ELSE <<"_before_delete_hooks_async", "_before_delete_hooks",
           "_after_delete_hooks_async", "_after_delete_hooks">>

RECURSIVE HooksRun(_, _)
HooksRun(cls, lists) ==
    IF Len(lists) = 0 THEN << >>
    ELSE HooksOf(cls, Head(lists)) \o HooksRun(cls, Tail(lists))

\* save, delete, save_async or delete_async of a valid instance of cls on an
\* initialised database: the hooks that _run_hooks and _run_hooks_async call
RunOperation(cls, op) ==
    /\ hook_run' = [cls |-> cls, op |-> op, ran |-> HooksRun(cls, ListsRun(op))]
    /\ hook_run' # hook_run
    /\ UNCHANGED hook_lists
    /\ UNCHANGED restOfHooks

HookInit ==
    /\ hook_lists = [list \in HookLists |-> << >>]
    /\ hook_run = NoHookRun

\* C28: an operation on an instance runs only hooks registered on the
\* instance's class or on a class it derives from, and a registration leaves
\* the hook lists of every class that does not derive from the registering
\* class as they were
C28_HooksStayWithTheirClass ==
    [][/\ \A cls \in ModelClasses : \A op \in HookOperations :
              RunOperation(cls, op) =>
                  \A n \in 1..Len(hook_run'.ran) : IsSubclass(cls, hook_run'.ran[n].by)
       /\ \A cls \in ModelClasses : \A list \in HookLists :
              RegisterHook(cls, list) =>
                  \A other \in ModelClasses :
                      ~IsSubclass(other, cls) =>
                          \A l \in HookLists :
                              HooksOf(other, l)' = HooksOf(other, l)]_vars

\* ---------------------------------------------------------------------------
\* The event loop of the MongoDB adapter, odbms/orms/mongodb.py: connect,
\* disconnect and the blocking operations, which all go through _run_sync.
\* The loop the adapter made is the thread's current loop and can be closed
\* from outside the adapter. The driver's operations complete on the loop
\* that runs them.
MaxLoops == 4
MaxDocs == 2
BlockingOperations == {"find", "insert", "remove"}
LoopClosedError == "RuntimeError: Event loop is closed"
NotConnected == "RuntimeError: Database not connected"
NoLoop == [id |-> None, closed |-> FALSE]
NoRun == [op |-> "none", outcome |-> "none", result |-> 0, recreated |-> FALSE]

\* a new event loop that is closed already
NewEventLoopClosed(n) == [id |-> n, closed |-> TRUE]

\* asyncio.new_event_loop(): the n-th loop made, open
NewEventLoop(n) == [id |-> n, closed |-> FALSE]

\* the test of _run_sync: self._loop is None or self._loop.is_closed()
NeedsNewLoop(l) == l.id = None \/ l.closed

\* what the coroutine of a blocking operation returns or raises
Coroutine(op) ==
    IF mongo_client = "None" THEN Raised(NotConnected)
    ELSE IF op = "find" THEN Returned(documents)
    ELSE IF op = "insert" THEN Returned(documents + 1)
    ELSE Returned(documents)

\* loop.run_until_complete(coro): a closed loop raises before it starts the
\* coroutine
RunUntilComplete(l, op) == IF l.closed THEN Raised(LoopClosedError) ELSE Coroutine(op)

\* MongoDB.connect, lines 28-37
MongoConnect ==
    /\ loops_made < MaxLoops
    /\ event_loop' = NewEventLoop(loops_made + 1)
    /\ loops_made' = loops_made + 1
    /\ mongo_client' = "connected"
    /\ UNCHANGED <<documents, last_run>>
    /\ UNCHANGED restOfLoop

\* MongoDB.disconnect, lines 39-47
MongoDisconnect ==
    /\ mongo_client' = "None"
    /\ event_loop' = NoLoop
    /\ <<mongo_client, event_loop>>' # <<mongo_client, event_loop>>
    /\ UNCHANGED <<loops_made, documents, last_run>>
    /\ UNCHANGED restOfLoop

\* the loop is closed by its other users: loop.close()
LoopClose ==
    /\ event_loop.id # None /\ ~event_loop.closed
    /\ event_loop' = [event_loop EXCEPT !.closed = TRUE]
    /\ UNCHANGED <<loops_made, mongo_client, documents, last_run>>
    /\ UNCHANGED restOfLoop

\* a blocking operation: MongoDB._run_sync(self.<op>_async(...)), lines 49-62
BlockingCall(op) ==
    LET made == IF NeedsNewLoop(event_loop) THEN loops_made + 1 ELSE loops_made
        first == IF NeedsNewLoop(event_loop) THEN NewEventLoop(made) ELSE event_loop
        tried == RunUntilComplete(first, op)
        retry == ~tried.ok /\ tried.err = LoopClosedError
        second == IF retry THEN NewEventLoop(made + 1) ELSE first
        ended == IF retry THEN RunUntilComplete(second, op) ELSE tried
    IN  /\ (IF retry THEN made + 1 ELSE made) <= MaxLoops
        /\ op = "insert" => documents < MaxDocs
        /\ event_loop' = second
        /\ loops_made' = IF retry THEN made + 1 ELSE made
        /\ documents' = IF ~ended.ok THEN documents
                        ELSE IF op = "insert" THEN documents + 1
                        ELSE IF op = "remove" THEN 0
                        ELSE documents
        /\ last_run' = [op |-> op,
                        outcome |-> IF ended.ok THEN "returned" ELSE ended.err,
                        result |-> IF ended.ok THEN ended.d ELSE 0,
                        recreated |-> NeedsNewLoop(event_loop)]
        /\ UNCHANGED mongo_client
        /\ UNCHANGED restOfLoop

LoopInit ==
    /\ event_loop = NoLoop /\ loops_made = 0 /\ mongo_client = "None"
    /\ documents = 0 /\ last_run = NoRun

LoopIdle == LoopInit

MoreIdle == CascadeIdle /\ HookInit /\ LoopIdle

DbmsNext == DbmsInitialize

FieldNext == ValidateField

PoolNext ==
    \E t \in Threads :
        \/ CallInitializePool(t)
        \/ InitAlloc(t)
        \/ InitFill(t)
        \/ CallGetConnection(t)
        \/ Get(t)
        \/ Timeout(t)
        \/ BodyClose(t)
        \/ Release(t)
        \/ CloseAll(t)

\* the connection pool used by two threads
Init == PoolInit /\ ModelIdle /\ NormIdle /\ AdapterIdle /\ RelIdle /\ DbmsInit /\ FieldIdle /\ MoreIdle
Spec == Init /\ [][PoolNext]_vars

\* the Model layer on the SQLite adapter, used by one caller
ModelSpecInit == PoolIdle /\ ModelInit /\ NormIdle /\ AdapterIdle /\ RelIdle /\ DbmsInit /\ FieldIdle /\ MoreIdle
ModelSpec == ModelSpecInit /\ [][ModelNext]_vars

\* one caller making, changing, saving, fetching and deleting instances
EntitySpecInit == PoolIdle /\ ModelInit /\ NormIdle /\ AdapterIdle /\ RelIdle /\ DbmsInit /\ FieldIdle /\ MoreIdle
EntitySpec == EntitySpecInit /\ [][EntityNext]_vars

\* the normaliser applied to one content, for each family of backend
NormSpecInit ==
    /\ PoolIdle
    /\ hooks = {} /\ table = << >> /\ next_id = 1
    /\ inst = NewModel(1) /\ last = NoOperation /\ steps = << >>
    /\ Database \in {"sqlite", "mongodb"}
    /\ NormInit
    /\ AdapterIdle /\ RelIdle /\ DbmsInit /\ FieldIdle /\ MoreIdle
NormSpec == NormSpecInit /\ [][NormNext]_vars

\* each adapter class on its table, used by one caller
AdapterSpecInit ==
    /\ PoolIdle /\ ModelIdle /\ NormIdle
    /\ adapter \in AdapterKinds
    /\ users = << >> /\ serial = 1 /\ lastrowid = 0 /\ last_call = NoCall
    /\ RelIdle /\ DbmsInit /\ FieldIdle /\ MoreIdle
AdapterSpec == AdapterSpecInit /\ [][AdapterNext]_vars

\* one caller assigning, saving, reloading and reading a relationship
RelSpecInit ==
    PoolIdle /\ ModelIdle /\ NormIdle /\ AdapterIdle /\ RelInit /\ DbmsInit /\ FieldIdle /\ MoreIdle
RelSpec == RelSpecInit /\ [][RelNext]_vars

\* DBMS.initialize called again and again with any supported kind
DbmsSpecInit ==
    PoolIdle /\ ModelIdle /\ NormIdle /\ AdapterIdle /\ RelIdle /\ DbmsInit /\ FieldIdle /\ MoreIdle
DbmsSpec == DbmsSpecInit /\ [][DbmsNext]_vars

\* validate applied to one value by one field
FieldSpecInit ==
    PoolIdle /\ ModelIdle /\ NormIdle /\ AdapterIdle /\ RelIdle /\ DbmsInit /\ FieldInit /\ MoreIdle
FieldSpec == FieldSpecInit /\ [][FieldNext]_vars

\* one caller deleting entities got by id, with and without cascade
CascadeNext ==
    \/ CallDelete
    \/ DeleteCascade
    \/ DeleteRemove
CascadeSpecInit ==
    /\ PoolIdle /\ ModelIdle /\ NormIdle /\ AdapterIdle /\ RelIdle /\ DbmsInit /\ FieldIdle
    /\ CascadeInit /\ HookInit /\ LoopIdle
CascadeSpec == CascadeSpecInit /\ [][CascadeNext]_vars

\* one caller reading and setting the relationships of entities got by id
LazyNext ==
    \/ ReadRelated
    \/ RelationshipSetter
LazySpecInit ==
    /\ PoolIdle /\ ModelIdle /\ NormIdle /\ AdapterIdle /\ RelIdle /\ DbmsInit /\ FieldIdle
    /\ CascadeInit /\ HookInit /\ LoopIdle
LazySpec == LazySpecInit /\ [][LazyNext]_vars

\* one caller using the blocking and the non-blocking forms of save and delete
AsyncSpecInit == PoolIdle /\ ModelInit /\ NormIdle /\ AdapterIdle /\ RelIdle /\ DbmsInit /\ FieldIdle /\ MoreIdle
AsyncSpec == AsyncSpecInit /\ [][AsyncNext]_vars

\* classes registering hooks, and operations on instances of the classes
HookNext ==
    \E cls \in ModelClasses :
        \/ \E list \in HookLists : RegisterHook(cls, list)
        \/ \E op \in HookOperations : RunOperation(cls, op)
HookSpecInit == PoolIdle /\ ModelIdle /\ NormIdle /\ AdapterIdle /\ RelIdle /\ DbmsInit /\ FieldIdle /\ MoreIdle
HookSpec == HookSpecInit /\ [][HookNext]_vars

\* one caller of the MongoDB adapter, and the other users of its loop
LoopNext ==
    \/ MongoConnect
    \/ MongoDisconnect
    \/ LoopClose
    \/ \E op \in BlockingOperations : BlockingCall(op)
LoopSpecInit == PoolIdle /\ ModelIdle /\ NormIdle /\ AdapterIdle /\ RelIdle /\ DbmsInit /\ FieldIdle /\ MoreIdle
LoopSpec == LoopSpecInit /\ [][LoopNext]_vars

=============================================================================
